---- MODULE Spec2Model ----
(***************************************************************************)
(* A model of the 3D portfolio city: the shared geometry/material cache,   *)
(* the residential placement, the building highlight, the frame loop with  *)
(* the player controller, the asynchronous loads and the scene disposal.   *)
(* Every definition is translated from the optimized sources               *)
(* (Portfolio.js = src/unnamed/part_000, Building.js = part_002,           *)
(* Character.js = part_003, main.js = part_004) and InfoPanel.js.          *)
(***************************************************************************)
EXTENDS Integers, Sequences, FiniteSets, TLC

VARIABLES
  \* ---- resource cache (Portfolio.geometryCache / materialCache) ----
  geometryCache,   \* key string -> geometry handle
  materialCache,   \* key string -> material handle
  nextHandle,      \* identity of the next object created by `new THREE.X`
  calls,           \* history of getter calls, oldest first
  \* ---- residential placement (Portfolio.addResidentialDistrict) ----
  tape,            \* the outcomes Math.random() will give, reused cyclically
  drawn,           \* how many times Math.random() was called
  buildingCount,   \* the argument of addResidentialDistrict
  placePc,         \* "grid", "select", "build" or "done"
  positions,       \* the pool of surviving candidates
  selectedPositions,
  residential,     \* the options of the residential buildings created
  previousRun,     \* the positions an earlier run of the generation selected
  \* ---- random trees (Portfolio.addTrees) ----
  treeCount,       \* the argument of addTrees
  treePc,          \* "idle", "fixed", "random" or "done"
  treeIndex,       \* the loop variable i
  treeCursor,      \* where on the tape the next Math.random() outcome is
  treePlaced,      \* the positions given to setMatrixAt, by instance index
  \* ---- building highlight and the info panel ----
  materials,       \* material -> its current emissive colour and intensity
  originalColor,   \* building -> part -> userData.originalColor, if set
  selectedBuilding,\* InfoPanel.selectedBuilding (0 is null)
  panelShown,      \* buildingInfo.style.display is "block"
  pendingHides,    \* hide timers set and not yet fired
  beforeHighlight, \* the materials as they were when highlight() was entered
  lastToggle,      \* the last highlight()/unhighlight() call and its building
  lastClick,       \* the last onMouseClick: its hits and the panel calls it made
  \* ---- construction of buildings (new Building(options)) ----
  built,           \* the buildings constructed, oldest first
  \* ---- the window batch of a building (Building.addWindows) ----
  windows,         \* the instanced batch the last addWindows call left
  \* ---- the assembly of the city (Portfolio.createCity) ----
  cityPc,          \* the step createCity is at
  cityLog,         \* the steps createCity has begun, oldest first
  cityLandmarks,   \* the types of the landmarks created, oldest first
  cityAlways,      \* the landmarks added to this.visibleBuildings
  \* ---- the player (Character) ----
  tempModel,       \* the placeholder capsule exists (this.tempModel is not null)
  model,           \* the loaded model exists (this.model is not null)
  shadow,          \* the shadow disc exists
  shadowPos,       \* position (x, z) of the shadow disc
  charPos,         \* position (x, y, z) of the model, else of the capsule
  facing,          \* the heading the player's +z axis points to
  flags,           \* moveForward, moveBackward, moveLeft, moveRight, isRunning
  held,            \* the keys that are physically down
  mixer,           \* this.mixer is not null
  animations,      \* the clips found in the loaded file
  currentAction,   \* the clip playing, "none" if none
  moveState,       \* what the last tick did: "Idle", "Walking", "Running"
  speed,           \* the speed constant the last tick chose
  tickFlags,       \* the input flags the last tick read
  camPos,          \* the camera's position (x, y, z)
  camDir,          \* the camera's horizontal viewing direction, a heading
  \* ---- the scene, its loads and its frames (Portfolio) ----
  sceneObjects,    \* the player's objects that are children of the THREE.Scene
  logos,           \* the buildings whose logo mesh is attached
  modelLoad,       \* "pending", "loaded" or "failed"
  logoLoad,        \* the buildings whose logo texture is still loading
  hasCharacter,    \* Portfolio.character is not null
  refsNulled,      \* scene, camera, controls, buildings, caches are null
  frames,          \* animation frames run so far
  updated,         \* building -> update() calls in the last frame
  throwing,        \* the buildings whose update() throws in the last frame
  inFrustum,       \* the buildings the frustum intersected in the last frame
  caught,          \* errors caught in the last frame
  scaled,          \* the buildings whose mesh scale the last frame set
  logoFaced,       \* the logos the last frame turned to the camera
  rendered,        \* the last frame reached renderer.render
  frameThrew,      \* the last frame ended in an uncaught error
  frameCam,        \* where the camera was when the last frame looped
  disposeCalls,    \* calls of Portfolio.dispose so far
  disposeThrew,    \* the last dispose call ended in an uncaught error
  released         \* resource -> how many times its dispose() was called

cacheVars == <<geometryCache, materialCache, nextHandle, calls>>

placeVars == <<tape, drawn, buildingCount, placePc, positions,
               selectedPositions, residential>>

panelVars == <<materials, originalColor, selectedBuilding, panelShown,
               pendingHides, beforeHighlight, lastToggle, lastClick>>

runVars == <<previousRun>>

treeVars == <<treeCount, treePc, treeIndex, treeCursor, treePlaced>>

buildVars == <<built>>

windowVars == <<windows>>

cityVars == <<cityPc, cityLog, cityLandmarks, cityAlways>>

charVars == <<tempModel, model, shadow, shadowPos, charPos, facing, flags, held,
              mixer, animations, currentAction, moveState, speed, tickFlags,
              camPos, camDir>>

sceneVars == <<sceneObjects, logos, modelLoad, logoLoad, hasCharacter,
               refsNulled, frames, updated, throwing, inFrustum, caught,
               scaled, logoFaced, rendered, frameThrew, frameCam,
               disposeCalls, disposeThrew, released>>

vars == <<geometryCache, materialCache, nextHandle, calls,
          tape, drawn, buildingCount, placePc, positions,
          selectedPositions, residential, previousRun,
          treeCount, treePc, treeIndex, treeCursor, treePlaced,
          materials, originalColor, selectedBuilding, panelShown,
          pendingHides, beforeHighlight, lastToggle, lastClick,
          built, windows, cityPc, cityLog, cityLandmarks, cityAlways,
          tempModel, model, shadow, shadowPos, charPos, facing, flags, held,
          mixer, animations, currentAction, moveState, speed, tickFlags,
          camPos, camDir,
          sceneObjects, logos, modelLoad, logoLoad, hasCharacter,
          refsNulled, frames, updated, throwing, inFrustum, caught,
          scaled, logoFaced, rendered, frameThrew, frameCam,
          disposeCalls, disposeThrew, released>>

\* What the actions of one component leave alone.
notCacheVars == <<placeVars, runVars, treeVars, panelVars, buildVars, windowVars, charVars,
                  sceneVars, cityVars>>
notPlaceVars == <<cacheVars, runVars, treeVars, panelVars, buildVars, windowVars, charVars,
                  sceneVars, cityVars>>
notPanelVars == <<cacheVars, placeVars, runVars, treeVars, buildVars, windowVars, charVars,
                  sceneVars, cityVars>>
notSceneVars == <<cacheVars, placeVars, runVars, treeVars, panelVars, buildVars,
                  windowVars, cityVars>>
notBuildVars == <<windowVars, cacheVars, placeVars, runVars, treeVars, panelVars, charVars,
                  sceneVars, cityVars>>
notTreeVars == <<cacheVars, runVars, panelVars, buildVars, windowVars, charVars, sceneVars, cityVars>>
notRunVars == <<cacheVars, treeVars, panelVars, buildVars, windowVars, charVars,
                sceneVars, cityVars>>
notWindowVars == <<cacheVars, placeVars, runVars, treeVars, panelVars, buildVars,
                   charVars, sceneVars, cityVars>>
notCityVars == <<cacheVars, runVars, treeVars, panelVars, buildVars, windowVars,
                 charVars, sceneVars>>

(***************************************************************************)
(* Resource cache                                                          *)
(***************************************************************************)

\* How many getter calls one behaviour records.
MaxCalls == 3

\* The empty JS object {} the constructor assigns to both caches.
EmptyCache == <<>>

\* The geometry kinds the scene-level switch recognises.
PortfolioGeometryKinds == {"box", "plane", "cylinder", "cone", "torus", "circle"}

\* The geometry kinds Building's switch recognises (no 'circle').
BuildingGeometryKinds == {"box", "plane", "cylinder", "cone", "torus"}

\* The material kinds both switches recognise.
MaterialKinds == {"standard", "basic", "phong"}

\* Kinds a caller passes: recognised ones and an unrecognised one.
CalledGeometryKinds == {"box", "circle", "sphere"}
CalledMaterialKinds == {"standard", "toon"}

\* Numeric parameter lists a caller passes (...params).
CalledGeometryParams == {<<1>>, <<1, 23>>, <<12, 3>>, <<23, 1>>}

\* Parameter objects a caller passes: a JS object literal is its properties in
\* insertion order, each <<name, value>>.
CalledMaterialParams ==
  { <<<<"color", 1>>>>,
    <<<<"color", 1>>, <<"roughness", 2>>>>,
    <<<<"roughness", 2>>, <<"color", 1>>>>,
    <<<<"color", 2>>, <<"roughness", 2>>>> }

\* Array.prototype.join('_') over numbers: String(n) of each, '_' between.
RECURSIVE JoinParams(_)
JoinParams(params) ==
  IF Len(params) = 0 THEN ""
  ELSE IF Len(params) = 1 THEN ToString(Head(params))
  ELSE ToString(Head(params)) \o "_" \o JoinParams(Tail(params))

\* `${type}_${params.join('_')}`
GeometryKey(type, params) == type \o "_" \o JoinParams(params)

\* JSON.stringify of an object with numeric properties: the properties in
\* insertion order.
RECURSIVE StringifyProps(_)
StringifyProps(props) ==
  IF Len(props) = 0 THEN ""
  ELSE LET p == Head(props)
           one == "\"" \o p[1] \o "\":" \o ToString(p[2])
       IN IF Len(props) = 1 THEN one
          ELSE one \o "," \o StringifyProps(Tail(props))

JSONStringify(props) == "{" \o StringifyProps(props) \o "}"

\* `${type}_${JSON.stringify(params)}`
MaterialKey(type, params) == type \o "_" \o JSONStringify(params)

\* What a getter call gives back.
Handle(h) == [tag |-> "handle", id |-> h]
Undefined == [tag |-> "undefined", id |-> 0]
Thrown == [tag |-> "throw", id |-> 0]

\* A getter on a cache: `recognised` are the kinds of its switch and
\* `throwsOnUnknown` tells whether the switch has the throwing default.
\* Gives the new cache, the new allocation counter and the result.
CacheGet(cache, key, type, recognised, throwsOnUnknown) ==
  IF key \in DOMAIN cache
    THEN [cache |-> cache, next |-> nextHandle, out |-> Handle(cache[key])]
  ELSE IF type \in recognised
    THEN [cache |-> cache @@ (key :> nextHandle), next |-> nextHandle + 1,
          out |-> Handle(nextHandle)]
  ELSE IF throwsOnUnknown
    THEN [cache |-> cache, next |-> nextHandle, out |-> Thrown]
  ELSE [cache |-> cache, next |-> nextHandle, out |-> Undefined]

Record(getter, res, type, params, out) ==
  [getter |-> getter, res |-> res, type |-> type, params |-> params, out |-> out]

\* Portfolio.getGeometry(type, ...params)
PortfolioGetGeometry(type, params) ==
  /\ Len(calls) < MaxCalls
  /\ LET r == CacheGet(geometryCache, GeometryKey(type, params), type,
                       PortfolioGeometryKinds, TRUE)
     IN /\ geometryCache' = r.cache
        /\ nextHandle' = r.next
        /\ calls' = Append(calls, Record("portfolio", "geometry", type, params, r.out))
  /\ UNCHANGED <<materialCache, notCacheVars>>

\* Building.getGeometry(type, ...params) of a building that was handed the
\* shared cache by Portfolio.addBuilding.
BuildingGetGeometry(type, params) ==
  /\ Len(calls) < MaxCalls
  /\ LET r == CacheGet(geometryCache, GeometryKey(type, params), type,
                       BuildingGeometryKinds, FALSE)
     IN /\ geometryCache' = r.cache
        /\ nextHandle' = r.next
        /\ calls' = Append(calls, Record("building", "geometry", type, params, r.out))
  /\ UNCHANGED <<materialCache, notCacheVars>>

\* Portfolio.getMaterial(type, params)
PortfolioGetMaterial(type, params) ==
  /\ Len(calls) < MaxCalls
  /\ LET r == CacheGet(materialCache, MaterialKey(type, params), type,
                       MaterialKinds, TRUE)
     IN /\ materialCache' = r.cache
        /\ nextHandle' = r.next
        /\ calls' = Append(calls, Record("portfolio", "material", type, params, r.out))
  /\ UNCHANGED <<geometryCache, notCacheVars>>

\* Building.getMaterial(type, params) on the shared cache.
BuildingGetMaterial(type, params) ==
  /\ Len(calls) < MaxCalls
  /\ LET r == CacheGet(materialCache, MaterialKey(type, params), type,
                       MaterialKinds, FALSE)
     IN /\ materialCache' = r.cache
        /\ nextHandle' = r.next
        /\ calls' = Append(calls, Record("building", "material", type, params, r.out))
  /\ UNCHANGED <<geometryCache, notCacheVars>>

(***************************************************************************)
(* Residential placement: Portfolio.addResidentialDistrict                 *)
(*                                                                         *)
(* Math.random() gives a number in [0, 1).  Its outcomes are the tape: the *)
(* k-th call gives tape[k % TapeLen] / NumRandom.  Coordinates are kept    *)
(* exact as integers, in units of 1 / Scale.                               *)
(***************************************************************************)

\* The outcomes of Math.random() are 0/NumRandom .. (NumRandom-1)/NumRandom.
NumRandom == 4

\* The length of the cycle of outcomes.
TapeLen == 3

\* The arguments addResidentialDistrict is called with (createCity passes 20).
RequestedCounts == {20, 150}

Scale == 2 * NumRandom

gridSize == 10
gridCells == 12

Abs(n) == IF n < 0 THEN -n ELSE n

Min(a, b) == IF a < b THEN a ELSE b

\* The k-th outcome of Math.random(), as a numerator over NumRandom.
Random(k) == tape[k % TapeLen]

\* x * gridSize + (Math.random() - 0.5) * 5, in units of 1 / Scale.
Jittered(cell, r) == cell * gridSize * Scale + (2 * r - NumRandom) * 5

\* The exclusion without its last rectangle, the one around (0, -24).
ExcludedNoNhn(posX, posZ) ==
  \/ (Abs(posX) < 10 * Scale /\ Abs(posZ) < 20 * Scale)
  \/ (Abs(posZ) < 10 * Scale /\ Abs(posX) < 20 * Scale)
  \/ (Abs(posX) < 12 * Scale /\ Abs(posZ) < 12 * Scale)
  \/ (Abs(posX - 16 * Scale) < 8 * Scale /\ Abs(posZ - 16 * Scale) < 8 * Scale)
  \/ (Abs(posX + 16 * Scale) < 8 * Scale /\ Abs(posZ - 16 * Scale) < 8 * Scale)
  \/ (Abs(posX - 16 * Scale) < 8 * Scale /\ Abs(posZ + 16 * Scale) < 8 * Scale)
  \/ (Abs(posX + 16 * Scale) < 8 * Scale /\ Abs(posZ + 16 * Scale) < 8 * Scale)

\* The condition of the `continue` in the grid loop: the candidate is in the
\* area kept clear of main roads and portfolio buildings.
Excluded(posX, posZ) ==
  \/ (Abs(posX) < 10 * Scale /\ Abs(posZ) < 20 * Scale)
  \/ (Abs(posZ) < 10 * Scale /\ Abs(posX) < 20 * Scale)
  \/ (Abs(posX) < 12 * Scale /\ Abs(posZ) < 12 * Scale)
  \/ (Abs(posX - 16 * Scale) < 8 * Scale /\ Abs(posZ - 16 * Scale) < 8 * Scale)
  \/ (Abs(posX + 16 * Scale) < 8 * Scale /\ Abs(posZ - 16 * Scale) < 8 * Scale)
  \/ (Abs(posX - 16 * Scale) < 8 * Scale /\ Abs(posZ + 16 * Scale) < 8 * Scale)
  \/ (Abs(posX + 16 * Scale) < 8 * Scale /\ Abs(posZ + 16 * Scale) < 8 * Scale)
  \/ (Abs(posX) < 8 * Scale /\ Abs(posZ + 24 * Scale) < 8 * Scale)

\* The cells in the order of the nested loops: x outer, z inner, each from
\* -gridCells / 2 up to gridCells / 2 - 1.  Cell number n is 0-based.
CellX(n) == (n \div gridCells) - gridCells \div 2
CellZ(n) == (n % gridCells) - gridCells \div 2

\* The candidate of cell n: posX takes the first draw of the cell, posZ the
\* second.
Candidate(n) ==
  [x |-> Jittered(CellX(n), Random(2 * n)),
   z |-> Jittered(CellZ(n), Random(2 * n + 1))]

\* The candidate is pushed to the pool: the `continue` is not taken.
Pushed(c) == ~Excluded(c.x, c.z)

\* The nested grid loops: the candidates of all cells in loop order, those
\* that are pushed.
GridLoop ==
  SelectSeq([i \in 1..(gridCells * gridCells) |-> Candidate(i - 1)], Pushed)

\* The two for loops of addResidentialDistrict: every cell draws twice.
CollectCandidates ==
  /\ placePc = "grid"
  /\ positions' = GridLoop
  /\ drawn' = drawn + 2 * gridCells * gridCells
  /\ placePc' = "select"
  /\ UNCHANGED <<tape, buildingCount, selectedPositions, residential, notPlaceVars>>

\* The same pool: the drawn position is not taken out.
NoSplice(seq, index) == seq

\* positions.splice(index, 1), index 0-based.
Splice(seq, index) ==
  [i \in 1..(Len(seq) - 1) |-> IF i <= index THEN seq[i] ELSE seq[i + 1]]

\* Math.floor(Math.random() * positions.length)
RandomIndex(k, length) == (Random(k) * length) \div NumRandom

\* One iteration of the while loop that draws the positions.
SelectPosition ==
  /\ placePc = "select"
  /\ Len(selectedPositions) < buildingCount /\ Len(positions) > 0
  /\ LET index == RandomIndex(drawn, Len(positions))
     IN /\ selectedPositions' = Append(selectedPositions, positions[index + 1])
        /\ positions' = Splice(positions, index)
  /\ drawn' = drawn + 1
  /\ UNCHANGED <<tape, buildingCount, placePc, residential, notPlaceVars>>

\* The while loop ends.
SelectDone ==
  /\ placePc = "select"
  /\ ~(Len(selectedPositions) < buildingCount /\ Len(positions) > 0)
  /\ placePc' = "build"
  /\ UNCHANGED <<tape, drawn, buildingCount, positions, selectedPositions,
                 residential, notPlaceVars>>

\* One iteration of selectedPositions.forEach: the options of the building,
\* sizes in units of 1 / NumRandom, and the roof decision (random > 0.3).
CreateResidential ==
  /\ placePc = "build"
  /\ Len(residential) < Len(selectedPositions)
  /\ LET pos == selectedPositions[Len(residential) + 1]
         options == [posX |-> pos.x, posZ |-> pos.z,
                     height |-> 2 * NumRandom + Random(drawn) * 8,
                     width |-> 2 * NumRandom + Random(drawn + 1) * 4,
                     depth |-> 2 * NumRandom + Random(drawn + 2) * 4,
                     colorIndex |-> (Random(drawn + 3) * 5) \div NumRandom,
                     type |-> "standard",
                     roof |-> 10 * Random(drawn + 4) > 3 * NumRandom]
     IN residential' = Append(residential, options)
  /\ drawn' = drawn + 5
  /\ UNCHANGED <<tape, buildingCount, placePc, positions, selectedPositions,
                 notPlaceVars>>

\* forEach ends and addResidentialDistrict returns.
CreateDone ==
  /\ placePc = "build"
  /\ Len(residential) = Len(selectedPositions)
  /\ placePc' = "done"
  /\ UNCHANGED <<tape, drawn, buildingCount, positions, selectedPositions,
                 residential, notPlaceVars>>

\* Outcomes of Math.random() that differ from t everywhere
OtherOutcomes(t) == [i \in DOMAIN t |-> (t[i] + 1) % NumRandom]

\* The city is generated again (the page is loaded again and main.js
\* constructs a new Portfolio): addResidentialDistrict is entered with the
\* same argument.  Nothing in the program seeds Math.random(), so the new run
\* may see the outcomes of the last run or others.
Regenerate ==
  /\ placePc = "done"
  /\ ~previousRun.done
  /\ previousRun' = [done |-> TRUE, positions |-> selectedPositions]
  /\ tape' \in {tape, OtherOutcomes(tape)}
  /\ drawn' = 0
  /\ placePc' = "grid"
  /\ positions' = <<>>
  /\ selectedPositions' = <<>>
  /\ residential' = <<>>
  /\ UNCHANGED <<buildingCount, notRunVars>>

InitRuns == previousRun = [done |-> FALSE, positions |-> <<>>]

\* addResidentialDistrict(buildingCount) is entered with an empty pool.
InitPlace ==
  /\ tape \in [0..(TapeLen - 1) -> 0..(NumRandom - 1)]
  /\ drawn = 0
  /\ buildingCount \in RequestedCounts
  /\ placePc = "grid"
  /\ positions = <<>>
  /\ selectedPositions = <<>>
  /\ residential = <<>>

\* The placement is not under way.
InitPlaceIdle ==
  /\ tape = [i \in 0..(TapeLen - 1) |-> 0]
  /\ drawn = 0
  /\ buildingCount = 20
  /\ placePc = "idle"
  /\ positions = <<>>
  /\ selectedPositions = <<>>
  /\ residential = <<>>

(***************************************************************************)
(* The assembly of the city: Portfolio.createCity                          *)
(***************************************************************************)

\* The types of portfolioBuildings, in the order of the array
Landmarks == <<"main", "kubernetes", "aws", "naver", "kt", "nhn">>

\* this.createGround()
CreateGround ==
  /\ cityPc = "ground"
  /\ cityPc' = "landmarks"
  /\ cityLog' = Append(cityLog, "ground")
  /\ UNCHANGED <<cityLandmarks, cityAlways, placeVars, notCityVars>>

\* One pass of portfolioBuildings.forEach: the landmark is created and
\* added to visibleBuildings
AddLandmark ==
  /\ cityPc = "landmarks"
  /\ Len(cityLandmarks) < Len(Landmarks)
  /\ LET type == Landmarks[Len(cityLandmarks) + 1]
     IN /\ cityLandmarks' = Append(cityLandmarks, type)
        /\ cityAlways' = cityAlways \cup {type}
  /\ cityLog' = Append(cityLog, "landmark")
  /\ UNCHANGED <<cityPc, placeVars, notCityVars>>

\* this.addResidentialDistrict(20) is entered
EnterResidentialDistrict ==
  /\ cityPc = "landmarks"
  /\ Len(cityLandmarks) = Len(Landmarks)
  /\ cityPc' = "residential"
  /\ cityLog' = Append(cityLog, "residential")
  /\ UNCHANGED <<cityLandmarks, cityAlways, placeVars, notCityVars>>

\* this.addRoads(), once addResidentialDistrict has returned
AddRoads ==
  /\ cityPc = "residential"
  /\ placePc = "done"
  /\ cityPc' = "roads"
  /\ cityLog' = Append(cityLog, "roads")
  /\ UNCHANGED <<cityLandmarks, cityAlways, placeVars, notCityVars>>

\* this.addEnvironmentalElements(20) and the end of createCity
AddEnvironmentalElements ==
  /\ cityPc = "roads"
  /\ cityPc' = "done"
  /\ cityLog' = Append(cityLog, "environment")
  /\ UNCHANGED <<cityLandmarks, cityAlways, placeVars, notCityVars>>

\* createCity is entered
InitCity ==
  /\ cityPc = "ground"
  /\ cityLog = <<>>
  /\ cityLandmarks = <<>>
  /\ cityAlways = {}

\* createCity has returned
InitCityBuilt ==
  /\ cityPc = "done"
  /\ cityLog = <<"ground">> \o [i \in 1..Len(Landmarks) |-> "landmark"]
                 \o <<"residential", "roads", "environment">>
  /\ cityLandmarks = Landmarks
  /\ cityAlways = {Landmarks[i] : i \in 1..Len(Landmarks)}

(***************************************************************************)
(* Random trees: Portfolio.addTrees                                        *)
(*                                                                         *)
(* The outcomes of Math.random() are read off the same tape, cyclically;   *)
(* coordinates are in units of 1 / Scale.                                  *)
(***************************************************************************)

\* The arguments addTrees is called with (addEnvironmentalElements passes 20)
TreeCounts == {8, 20}

\* const treePositions = [...]: the hand-placed trees
treePositions ==
  << [x |-> 10, z |-> 10], [x |-> -10, z |-> 10], [x |-> 10, z |-> -10],
     [x |-> -10, z |-> -10], [x |-> 20, z |-> 0], [x |-> -20, z |-> 0],
     [x |-> 0, z |-> 20], [x |-> 0, z |-> -20], [x |-> 25, z |-> 25],
     [x |-> -25, z |-> 25], [x |-> 25, z |-> -25], [x |-> -25, z |-> -25] >>

\* (Math.random() - 0.5) * 100 for the outcome r / NumRandom
TreeCoordinate(r) == (2 * r - NumRandom) * 100

\* The two `continue` tests of the while loop
TreeRejected(x, z) ==
  \/ (Abs(x) < 10 * Scale /\ Abs(z) < 10 * Scale)
  \/ (Abs(x) < 5 * Scale \/ Abs(z) < 5 * Scale)

\* The first for loop: the hand-placed trees, at most count of them
PlaceFixedTrees ==
  /\ treePc = "fixed"
  /\ treePlaced' = [i \in 1..Min(Len(treePositions), treeCount) |->
                      [x |-> treePositions[i].x * Scale,
                       z |-> treePositions[i].z * Scale]]
  /\ treeIndex' = Len(treePositions)
  /\ treePc' = "random"
  /\ UNCHANGED <<treeCount, treeCursor, placeVars, notTreeVars>>

\* One pass of `while (!isValid)` for tree i: two outcomes are drawn; a
\* rejected candidate leaves i as it is, an accepted one is placed
SampleTree ==
  /\ treePc = "random"
  /\ treeIndex < treeCount
  /\ LET x == TreeCoordinate(Random(treeCursor))
         z == TreeCoordinate(Random(treeCursor + 1))
     IN IF TreeRejected(x, z)
        THEN UNCHANGED <<treeIndex, treePlaced>>
        ELSE /\ treePlaced' = Append(treePlaced, [x |-> x, z |-> z])
             /\ treeIndex' = treeIndex + 1
  /\ treeCursor' = (treeCursor + 2) % TapeLen
  /\ UNCHANGED <<treeCount, treePc, placeVars, notTreeVars>>

\* The second for loop ends: the instanced meshes are added to the scene
TreesDone ==
  /\ treePc = "random"
  /\ treeIndex >= treeCount
  /\ treePc' = "done"
  /\ UNCHANGED <<treeCount, treeIndex, treeCursor, treePlaced, placeVars,
                 notTreeVars>>

\* addTrees(count) is entered
InitTrees ==
  /\ treeCount \in TreeCounts
  /\ treePc = "fixed"
  /\ treeIndex = 0
  /\ treeCursor = 0
  /\ treePlaced = <<>>

\* addTrees is not under way
InitTreesIdle ==
  /\ treeCount = 20
  /\ treePc = "idle"
  /\ treeIndex = 0
  /\ treeCursor = 0
  /\ treePlaced = <<>>

\* Math.random() can give any outcomes
InitTape ==
  /\ tape \in [0..(TapeLen - 1) -> 0..(NumRandom - 1)]
  /\ drawn = 0
  /\ buildingCount = 20
  /\ placePc = "idle"
  /\ positions = <<>>
  /\ selectedPositions = <<>>
  /\ residential = <<>>

(***************************************************************************)
(* Building highlight (Building.highlight / unhighlight) and the info      *)
(* panel that calls it (InfoPanel.showBuildingInfo / hideBuildingInfo).    *)
(*                                                                         *)
(* A material is identified by the parameters it was created with, which   *)
(* is what the shared material cache keys it by.  Colours are the hex      *)
(* numbers of the source; roughness, metalness, opacity and emissive       *)
(* intensity are in tenths.                                                *)
(***************************************************************************)

\* How many hide timers may be pending at once.
MaxPendingHides == 2

White == 16777215            \* 0xffffff
Black == 0                   \* 0x000000
WindowBlue == 13166325       \* 0xc8e6f5
PastelBlue == 8300740        \* 0x7ea8c4
OrangeBeige == 16103793      \* 0xf5b971
SageGreen == 9419178         \* 0x8fb9aa
SlateBlue == 6124427         \* 0x5d738b

\* child.userData.originalColor is not set.
NoColor == -1

\* THREE.MeshStandardMaterial(params): emissive is black and emissiveIntensity
\* 1 unless params give them.
StandardMaterial(color, roughness, metalness) ==
  [color |-> color, roughness |-> roughness, metalness |-> metalness,
   emissive |-> Black, emissiveIntensity |-> 10, opacity |-> 10]

EmissiveMaterial(color, roughness, metalness, emissive, intensity) ==
  [color |-> color, roughness |-> roughness, metalness |-> metalness,
   emissive |-> emissive, emissiveIntensity |-> intensity, opacity |-> 10]

TransparentMaterial(color, roughness, metalness, opacity) ==
  [color |-> color, roughness |-> roughness, metalness |-> metalness,
   emissive |-> Black, emissiveIntensity |-> 10, opacity |-> opacity]

\* Building.adjustColor(color, amount), amount in tenths: each channel c
\* becomes c + c * amount, clamped to 0..255 and truncated by the shifts.
AdjustChannel(c, amount) ==
  LET v == (c * (10 + amount)) \div 10
  IN IF v < 0 THEN 0 ELSE IF v > 255 THEN 255 ELSE v

AdjustColor(color, amount) ==
  AdjustChannel(color \div 65536, amount) * 65536
    + AdjustChannel((color \div 256) % 256, amount) * 256
    + AdjustChannel(color % 256, amount)

\* One visual part met by mesh.traverse: its material, whether it is the
\* instanced window batch and whether it is the logo.
Part(material, instanced, isLogo) ==
  [material |-> material, instanced |-> instanced, isLogo |-> isLogo]

\* The window batch addWindows adds under the building body.
WindowMaterial == EmissiveMaterial(WindowBlue, 1, 8, WindowBlue, 2)
Windows == Part(WindowMaterial, TRUE, FALSE)

\* createStandardBuilding: base, body with its windows, top, in traversal
\* order.
StandardParts(color) ==
  << Part(StandardMaterial(AdjustColor(color, -2), 8, 2), FALSE, FALSE),
     Part(StandardMaterial(color, 7, 1), FALSE, FALSE),
     Windows,
     Part(StandardMaterial(AdjustColor(color, 1), 5, 3), FALSE, FALSE) >>

\* addRoof
RoofPart == Part(StandardMaterial(SageGreen, 8, 2), FALSE, FALSE)

\* createMainBuilding: base, four pillars, core with its windows, top, ring,
\* entrance, stairs.
MainParts(color) ==
  LET pillar == Part(StandardMaterial(PastelBlue, 4, 6), FALSE, FALSE)
  IN << Part(StandardMaterial(SlateBlue, 7, 3), FALSE, FALSE),
        pillar, pillar, pillar, pillar,
        Part(StandardMaterial(color, 5, 2), FALSE, FALSE),
        Windows,
        Part(TransparentMaterial(PastelBlue, 4, 5, 9), FALSE, FALSE),
        Part(EmissiveMaterial(PastelBlue, 3, 7, PastelBlue, 5), FALSE, FALSE),
        Part(TransparentMaterial(WindowBlue, 1, 8, 9), FALSE, FALSE),
        Part(StandardMaterial(SlateBlue, 7, 2), FALSE, FALSE) >>

\* The colours of the special recipes
KubernetesBlue == 3304677
KubernetesIndigo == 4414634
KubernetesCobalt == 3494082
AwsOrange == 16750848
NaverGreen == 2017280
KtRed == 16718876
NhnGreen == 47171

\* createKubernetesBuilding: the standard building, three containers, the
\* wheel
KubernetesParts(color) ==
  StandardParts(color) \o
  << Part(StandardMaterial(KubernetesBlue, 6, 3), FALSE, FALSE),
     Part(StandardMaterial(KubernetesIndigo, 6, 3), FALSE, FALSE),
     Part(StandardMaterial(KubernetesCobalt, 6, 3), FALSE, FALSE),
     Part(StandardMaterial(KubernetesBlue, 4, 5), FALSE, FALSE) >>

\* createAwsBuilding: the standard building, the top, the detail
AwsParts(color) ==
  StandardParts(color) \o
  << Part(StandardMaterial(AwsOrange, 5, 3), FALSE, FALSE),
     Part(StandardMaterial(AwsOrange, 4, 5), FALSE, FALSE) >>

\* createNaverBuilding: the standard building, the top, the logo bar
NaverParts(color) ==
  StandardParts(color) \o
  << Part(StandardMaterial(NaverGreen, 5, 2), FALSE, FALSE),
     Part(StandardMaterial(NaverGreen, 4, 3), FALSE, FALSE) >>

\* createKtBuilding: the standard building, the top, the two bars
KtParts(color) ==
  StandardParts(color) \o
  << Part(StandardMaterial(KtRed, 5, 3), FALSE, FALSE),
     Part(StandardMaterial(KtRed, 4, 5), FALSE, FALSE),
     Part(StandardMaterial(KtRed, 4, 5), FALSE, FALSE) >>

\* createNhnBuilding: the standard building, three steps, the two slants
NhnParts(color) ==
  StandardParts(color) \o
  << Part(StandardMaterial(NhnGreen, 6, 3), FALSE, FALSE),
     Part(StandardMaterial(NhnGreen, 6, 3), FALSE, FALSE),
     Part(StandardMaterial(NhnGreen, 6, 3), FALSE, FALSE),
     Part(StandardMaterial(NhnGreen, 5, 4), FALSE, FALSE),
     Part(StandardMaterial(NhnGreen, 5, 4), FALSE, FALSE) >>

\* The case labels of the switch in createMainStructure
SpecialTypes == {"aws", "kubernetes", "naver", "kt", "nhn", "main"}

\* What createMainStructure leaves: whether it threw, and the parts added
\* to the mesh
Structure(parts) == [threw |-> FALSE, parts |-> parts]

\* A switch whose default branch throws instead of building
CreateMainStructureStrict(type, color) ==
  CASE type = "aws" -> Structure(AwsParts(color))
    [] type = "kubernetes" -> Structure(KubernetesParts(color))
    [] type = "naver" -> Structure(NaverParts(color))
    [] type = "kt" -> Structure(KtParts(color))
    [] type = "nhn" -> Structure(NhnParts(color))
    [] type = "main" -> Structure(MainParts(color))
    [] type = "standard" -> Structure(StandardParts(color))
    [] OTHER -> [threw |-> TRUE, parts |-> <<>>]

\* Building.createMainStructure: the switch on this.type
CreateMainStructure(type, color) ==
  CASE type = "aws" -> Structure(AwsParts(color))
    [] type = "kubernetes" -> Structure(KubernetesParts(color))
    [] type = "naver" -> Structure(NaverParts(color))
    [] type = "kt" -> Structure(KtParts(color))
    [] type = "nhn" -> Structure(NhnParts(color))
    [] type = "main" -> Structure(MainParts(color))
    [] OTHER -> Structure(StandardParts(color))

\* The buildings of the scene the panel is exercised on: the main landmark
\* and two residential buildings of one palette colour, the first roofed.
PanelBuildings ==
  << MainParts(PastelBlue),
     Append(StandardParts(OrangeBeige), RoofPart),
     StandardParts(OrangeBeige) >>

BuildingIds == 1..Len(PanelBuildings)

PartsOf(b) == PanelBuildings[b]

AllMaterials ==
  UNION {{PartsOf(b)[i].material : i \in 1..Len(PartsOf(b))} : b \in BuildingIds}

\* The emissive state a material is created with.
BuiltEmissive(m) == [emissive |-> m.emissive, emissiveIntensity |-> m.emissiveIntensity]

Glow == [emissive |-> White, emissiveIntensity |-> 2]
Dark == [emissive |-> Black, emissiveIntensity |-> 0]

\* JS truthiness of child.userData.originalColor: unset and 0 are falsy.
Truthy(c) == c # NoColor /\ c # 0

\* Building.highlight() on building b, parts visited from index i on: gives
\* the materials and the originalColor marks of b after the traversal.
RECURSIVE HighlightFrom(_, _, _, _)
HighlightFrom(b, i, mats, marks) ==
  IF i > Len(PartsOf(b)) THEN [mats |-> mats, marks |-> marks]
  ELSE LET p == PartsOf(b)[i]
       IN IF p.isLogo THEN HighlightFrom(b, i + 1, mats, marks)
          ELSE IF p.instanced
            THEN HighlightFrom(b, i + 1, [mats EXCEPT ![p.material] = Glow], marks)
          ELSE IF ~Truthy(marks[i])
            THEN HighlightFrom(b, i + 1, [mats EXCEPT ![p.material] = Glow],
                               [marks EXCEPT ![i] = p.material.color])
          ELSE HighlightFrom(b, i + 1, mats, marks)

\* Building.unhighlight() on building b, likewise.
RECURSIVE UnhighlightFrom(_, _, _, _)
UnhighlightFrom(b, i, mats, marks) ==
  IF i > Len(PartsOf(b)) THEN [mats |-> mats, marks |-> marks]
  ELSE LET p == PartsOf(b)[i]
       IN IF p.isLogo THEN UnhighlightFrom(b, i + 1, mats, marks)
          ELSE IF p.instanced
            THEN UnhighlightFrom(b, i + 1, [mats EXCEPT ![p.material] = Dark], marks)
          ELSE IF Truthy(marks[i])
            THEN UnhighlightFrom(b, i + 1, [mats EXCEPT ![p.material] = Dark],
                                 [marks EXCEPT ![i] = NoColor])
          ELSE UnhighlightFrom(b, i + 1, mats, marks)

\* A showBuildingInfo that leaves the building selected before as it is
ShowBuildingInfoKeep(b) ==
  LET afterHi == HighlightFrom(b, 1, materials, originalColor[b])
  IN /\ selectedBuilding' = b
     /\ materials' = afterHi.mats
     /\ originalColor' = [originalColor EXCEPT ![b] = afterHi.marks]
     /\ beforeHighlight' = materials
     /\ lastToggle' = [op |-> "highlight", building |-> b]
     /\ panelShown' = TRUE
     /\ UNCHANGED <<pendingHides, notPanelVars>>

\* InfoPanel.showBuildingInfo(building): unhighlight the selected building
\* if there is one, select and highlight the new one, show the panel.
ShowBuildingInfo(b) ==
  LET afterUn == IF selectedBuilding # 0
                   THEN UnhighlightFrom(selectedBuilding, 1, materials,
                                        originalColor[selectedBuilding])
                   ELSE [mats |-> materials, marks |-> <<>>]
      marksUn == IF selectedBuilding # 0
                   THEN [originalColor EXCEPT ![selectedBuilding] = afterUn.marks]
                   ELSE originalColor
      afterHi == HighlightFrom(b, 1, afterUn.mats, marksUn[b])
  IN /\ selectedBuilding' = b
     /\ materials' = afterHi.mats
     /\ originalColor' = [marksUn EXCEPT ![b] = afterHi.marks]
     /\ beforeHighlight' = afterUn.mats
     /\ lastToggle' = [op |-> "highlight", building |-> b]
     /\ panelShown' = TRUE
     /\ UNCHANGED <<pendingHides, notPanelVars>>

\* InfoPanel.hideBuildingInfo(): unhighlight and forget the selected
\* building, fade the panel and set the 300 ms timer that hides it.
HideBuildingInfo ==
  /\ pendingHides < MaxPendingHides
  /\ IF selectedBuilding # 0
       THEN LET after == UnhighlightFrom(selectedBuilding, 1, materials,
                                         originalColor[selectedBuilding])
            IN /\ materials' = after.mats
               /\ originalColor' = [originalColor EXCEPT ![selectedBuilding] = after.marks]
               /\ lastToggle' = [op |-> "unhighlight", building |-> selectedBuilding]
       ELSE UNCHANGED <<materials, originalColor, lastToggle>>
  /\ selectedBuilding' = 0
  /\ pendingHides' = pendingHides + 1
  /\ UNCHANGED <<panelShown, beforeHighlight, notPanelVars>>

\* The callback of the 300 ms timer: display = "none".
HideTimerFires ==
  /\ pendingHides > 0
  /\ pendingHides' = pendingHides - 1
  /\ panelShown' = FALSE
  /\ UNCHANGED <<materials, originalColor, selectedBuilding, beforeHighlight,
                 lastToggle, lastClick, notPanelVars>>

\* ---- the click (Portfolio.onMouseClick) ----

\* The most objects one ray intersects
MaxHits == 2

\* raycaster.intersectObjects(scene.children, true): the objects the ray
\* intersects, nearest first.  An object is named by the building its
\* parent chain leads to (userData.building), 0 for an object whose chain
\* ends at the scene without one: the ground, a road, a tree, the player.
Intersects == UNION {[1..n -> {0} \cup BuildingIds] : n \in 0..MaxHits}

\* A pick that takes the farthest building on the ray
RECURSIVE FarthestBuildingFrom(_, _)
FarthestBuildingFrom(intersects, i) ==
  IF i > Len(intersects) THEN 0
  ELSE LET rest == FarthestBuildingFrom(intersects, i + 1)
       IN IF rest # 0 THEN rest ELSE intersects[i]

\* The for loop from index i on: the building of the first intersect whose
\* parent chain has one, 0 if the loop ends with buildingClicked false
RECURSIVE ClickedBuildingFrom(_, _)
ClickedBuildingFrom(intersects, i) ==
  IF i > Len(intersects) THEN 0
  ELSE IF intersects[i] # 0 THEN intersects[i]
  ELSE ClickedBuildingFrom(intersects, i + 1)

\* The click listener of the window
OnMouseClick(intersects) ==
  LET b == ClickedBuildingFrom(intersects, 1)
  IN IF b # 0
     THEN /\ ShowBuildingInfo(b)
          /\ lastClick' = [clicked |-> TRUE, intersects |-> intersects,
                           shown |-> <<b>>, hidden |-> 0]
     ELSE /\ HideBuildingInfo
          /\ lastClick' = [clicked |-> TRUE, intersects |-> intersects,
                           shown |-> <<>>, hidden |-> 1]

\* The click listener of the panel's close button: hideBuildingInfo itself
CloseButtonClick ==
  /\ HideBuildingInfo
  /\ UNCHANGED lastClick

\* The panel after construction: nothing selected, every material as built.
InitPanel ==
  /\ materials = [m \in AllMaterials |-> BuiltEmissive(m)]
  /\ originalColor = [b \in BuildingIds |-> [i \in 1..Len(PartsOf(b)) |-> NoColor]]
  /\ selectedBuilding = 0
  /\ panelShown = FALSE
  /\ pendingHides = 0
  /\ beforeHighlight = [m \in AllMaterials |-> BuiltEmissive(m)]
  /\ lastToggle = [op |-> "none", building |-> 0]
  /\ lastClick = [clicked |-> FALSE, intersects |-> <<>>, shown |-> <<>>,
                  hidden |-> 0]

(***************************************************************************)
(* Construction of a building: new Building(options)                       *)
(***************************************************************************)

\* How many buildings one behaviour constructs
MaxBuilt == 2

\* options.type as callers give it: the types createCity passes and two
\* that no case label names
BuildTypes == SpecialTypes \cup {"standard", "office", "tower"}

\* options.color as callers give it
BuildColors == {PastelBlue, OrangeBeige, SageGreen}

\* new Building({type, color}) without a logo texture
Build(type, color) ==
  /\ Len(built) < MaxBuilt
  /\ LET made == CreateMainStructure(type, color)
     IN built' = Append(built, [type |-> type, color |-> color,
                                threw |-> made.threw, parts |-> made.parts])
  /\ UNCHANGED notBuildVars

InitBuild == built = <<>>

Quot(a, b) == IF a >= 0 THEN a \div b ELSE -((-a) \div b)

(***************************************************************************)
(* The window batch: Building.addWindows                                   *)
(*                                                                         *)
(* The sizes of a building are in tenths of a unit, the translations of    *)
(* the transforms in thousandths.  The k-th `Math.random() > 0.8` of a     *)
(* call is skips[k % TapeLen].                                             *)
(***************************************************************************)

\* this.width, this.height, this.depth as the callers of the constructor
\* give them, in tenths: around the side-window threshold 1.5 and around
\* the smallest residential sizes
WindowWidths == {10, 15, 20, 25}
WindowHeights == {10, 20, 30}
WindowDepths == {20, 25}

\* The outcomes of the skip test, reused cyclically
SkipTapes == [0..(TapeLen - 1) -> BOOLEAN]

\* const windowDepth = 0.05, in thousandths
windowDepth == 50

\* `this.width > 1.5`, in tenths
SideThreshold == 15

\* Math.floor(this.width * 2), Math.floor(this.depth * 2)
windowsHorizontal(width) == (width * 2) \div 10

\* Math.floor(this.height * 1.5)
windowsVertical(height) == (height * 15) \div 100

\* (size / n) * (i - (n - 1) / 2), in thousandths
WindowOffset(size, n, i) == Quot(size * 100 * (2 * i - (n - 1)), 2 * n)

\* Matrix4.makeTranslation(x, y, z): the matrix becomes that translation
makeTranslation(x, y, z) == [x |-> x, y |-> y, z |-> z, rotationY |-> 0]

\* Matrix4.makeRotationY(theta) on matrix m, theta in quarter turns: the
\* matrix becomes that rotation, whatever it was
makeRotationY(m, theta) == [x |-> 0, y |-> 0, z |-> 0, rotationY |-> theta]

\* One setMatrixAt(instanceIndex++, matrix) call
Write(face, cell, matrix) == [face |-> face, cell |-> cell, matrix |-> matrix]

\* The front loop from cell k on (k = i * windowsVertical + j): the
\* setMatrixAt calls it makes, in order
RECURSIVE FrontLoop(_, _, _, _, _)
FrontLoop(k, width, height, depth, skips) ==
  LET nh == windowsHorizontal(width)
      nv == windowsVertical(height)
  IN IF k >= nh * nv THEN <<>>
     ELSE IF skips[k % TapeLen]
     THEN FrontLoop(k + 1, width, height, depth, skips)
     ELSE LET offsetX == WindowOffset(width, nh, k \div nv)
              offsetY == WindowOffset(height, nv, k % nv)
          IN << Write("front", k,
                      makeTranslation(offsetX, offsetY,
                                      depth * 50 + windowDepth \div 2)),
                Write("back", k,
                      makeTranslation(offsetX, offsetY,
                                      -(depth * 50) - windowDepth \div 2)) >>
               \o FrontLoop(k + 1, width, height, depth, skips)

\* The side loop from cell k on; its skip tests follow those of the front
\* loop
RECURSIVE SideLoop(_, _, _, _, _)
SideLoop(k, width, height, depth, skips) ==
  LET nh == windowsHorizontal(depth)
      nv == windowsVertical(height)
      test == windowsHorizontal(width) * nv + k
  IN IF k >= nh * nv THEN <<>>
     ELSE IF skips[test % TapeLen]
     THEN SideLoop(k + 1, width, height, depth, skips)
     ELSE LET offsetZ == WindowOffset(depth, nh, k \div nv)
              offsetY == WindowOffset(height, nv, k % nv)
          IN << Write("right", k,
                      makeRotationY(
                        makeTranslation(width * 50 + windowDepth \div 2,
                                        offsetY, offsetZ), 1)),
                Write("left", k,
                      makeRotationY(
                        makeTranslation(-(width * 50) - windowDepth \div 2,
                                        offsetY, offsetZ), -1)) >>
               \o SideLoop(k + 1, width, height, depth, skips)

\* Building.addWindows of a building of these sizes: the batch is allocated
\* for windowsHorizontal * windowsVertical * 4 instances, the loops write
\* their transforms and the count is set to the number of writes
AddWindows(width, height, depth, skips) ==
  /\ LET writes == FrontLoop(0, width, height, depth, skips)
                     \o (IF width > SideThreshold
                         THEN SideLoop(0, width, height, depth, skips)
                         ELSE <<>>)
     IN windows' = [built |-> TRUE,
                    width |-> width, height |-> height, depth |-> depth,
                    skips |-> skips,
                    batches |-> 1,
                    capacity |-> windowsHorizontal(width)
                                   * windowsVertical(height) * 4,
                    writes |-> writes,
                    count |-> Len(writes)]
  /\ UNCHANGED notWindowVars

\* No building constructed yet
InitWindows ==
  windows = [built |-> FALSE, width |-> 0, height |-> 0, depth |-> 0,
             skips |-> [k \in 0..(TapeLen - 1) |-> FALSE], batches |-> 0,
             capacity |-> 0, writes |-> <<>>, count |-> 0]

(***************************************************************************)
(* The player (Character), the frame loop (Portfolio.animate), the         *)
(* asynchronous loads and the disposal (Portfolio.dispose).                *)
(*                                                                         *)
(* Lengths are in hundredths of a world unit and time is in hundredths of  *)
(* a second; a unit vector has its components in hundredths.  Products    *)
(* and quotients are rounded toward zero.                                  *)
(***************************************************************************)
MaxFrames == 2
MaxDisposeCalls == 2

\* The player stays within this distance of the origin on both axes
WorldLimit == 25000

Unit == 10 * 10

\* `distance > 150` in Portfolio.animate
FarDistance == 150

WalkSpeed == 4
RunSpeed == 8

\* this.cameraOffset = new THREE.Vector3(0, 5, 10)
CameraUp == 5
CameraBack == 10

\* `pushDirection.x * 0.1`: the push is one tenth of the unit vector
PushDivisor == 10

\* this.controls.minDistance, maxDistance, and the sine and cosine of the
\* elevation Math.PI / 2 - maxPolarAngle = 0.1, in ten-thousandths
minDistance == 5
maxDistance == 100
SinElevation == 998
CosElevation == 9950

\* clock.getDelta() of a frame: a quarter of a second, or the forty seconds
\* the tab spent in the background
Deltas == {25, 4000}

RECURSIVE SqrtIter(_, _)
SqrtIter(n, x) ==
  LET y == (x + n \div x) \div 2
  IN IF y >= x THEN x ELSE SqrtIter(n, y)

\* Math.sqrt, rounded down
Sqrt(n) == IF n = 0 THEN 0 ELSE SqrtIter(n, n)

\* Vector3.normalize of a horizontal vector: the unit vector, in hundredths
Normalize2(v) ==
  LET sq == v.x * v.x + v.z * v.z
      len == IF sq < 20 * Unit * Unit
             THEN Sqrt(sq * Unit * Unit)
             ELSE Sqrt(sq) * Unit
  IN IF sq = 0
     THEN [x |-> 0, z |-> 0]
     ELSE [x |-> Quot(v.x * Unit * Unit, len), z |-> Quot(v.z * Unit * Unit, len)]

\* The landmark buildings of createCity that the frames of this model see,
\* and one residential building.  logoTexture says whether the options
\* name a logo file.
SceneBuildings == <<
  [type |-> "main", posX |-> 0, posZ |-> 0,
   width |-> 8, height |-> 16, depth |-> 8, logoTexture |-> FALSE],
  [type |-> "kubernetes", posX |-> -16, posZ |-> -16,
   width |-> 6, height |-> 12, depth |-> 6, logoTexture |-> TRUE],
  [type |-> "standard", posX |-> 30, posZ |-> 30,
   width |-> 4, height |-> 6, depth |-> 4, logoTexture |-> FALSE] >>

SceneBuildingIds == 1..Len(SceneBuildings)

\* this.visibleBuildings: createCity adds every landmark
visibleBuildings == {b \in SceneBuildingIds : SceneBuildings[b].type # "standard"}

\* building.mesh.position, set by the constructor
MeshPosition(b) ==
  [x |-> SceneBuildings[b].posX * Unit,
   y |-> Quot(SceneBuildings[b].height * Unit, 2),
   z |-> SceneBuildings[b].posZ * Unit]

\* new THREE.Box3().setFromObject(building.mesh), its horizontal extent: the
\* base plate is the widest part of a building, and the stairs of the main
\* building reach further in +z.  Every building stands on the ground and is
\* taller than the player, so the boxes always overlap vertically.
BuildingBox(b) ==
  LET o == SceneBuildings[b]
      c == MeshPosition(b)
  IN IF o.type = "main"
     THEN [minX |-> c.x - o.width * 60, maxX |-> c.x + o.width * 60,
           minZ |-> c.z - o.depth * 60, maxZ |-> c.z + o.depth * 75]
     ELSE [minX |-> c.x - o.width * 55, maxX |-> c.x + o.width * 55,
           minZ |-> c.z - o.depth * 55, maxZ |-> c.z + o.depth * 55]

\* new THREE.Box3().setFromObject(target): the capsule has radius 0.5
CharacterBox(pos) ==
  [minX |-> pos.x - Unit \div 2, maxX |-> pos.x + Unit \div 2,
   minZ |-> pos.z - Unit \div 2, maxZ |-> pos.z + Unit \div 2]

\* Box3.intersectsBox
IntersectsBox(a, b) ==
  ~(a.maxX < b.minX \/ a.minX > b.maxX \/ a.maxZ < b.minZ \/ a.minZ > b.maxZ)

\* The square of Vector3.distanceTo
DistanceSquared(p, q) ==
  (p.x - q.x) * (p.x - q.x) + (p.y - q.y) * (p.y - q.y)
    + (p.z - q.z) * (p.z - q.z)

\* ---- keyboard (Character.setupKeyboardControls) ----

NoFlags == [moveForward |-> FALSE, moveBackward |-> FALSE, moveLeft |-> FALSE,
            moveRight |-> FALSE, isRunning |-> FALSE]

\* The key pressed in the runs of the scene, and the keys pressed in the
\* runs of the player
SceneKeyCodes == {"KeyW"}

KeyCodes == {"KeyW", "KeyS", "KeyA", "ShiftLeft"}

\* The flag a key code switches, "none" for the codes that switch no flag
FlagOf(code) ==
  CASE code \in {"KeyW", "ArrowUp"} -> "moveForward"
    [] code \in {"KeyS", "ArrowDown"} -> "moveBackward"
    [] code \in {"KeyA", "ArrowLeft"} -> "moveLeft"
    [] code \in {"KeyD", "ArrowRight"} -> "moveRight"
    [] code = "ShiftLeft" -> "isRunning"
    [] OTHER -> "none"

\* What the keyboard listeners leave alone
notKeyVars == <<tempModel, model, shadow, shadowPos, charPos, facing, mixer,
                animations, currentAction, moveState, speed, tickFlags,
                camPos, camDir>>

\* The keydown listener
KeyDown(code) ==
  /\ code \notin held
  /\ held' = held \cup {code}
  /\ flags' = IF FlagOf(code) = "none" THEN flags
              ELSE [flags EXCEPT ![FlagOf(code)] = TRUE]
  /\ UNCHANGED <<notKeyVars, sceneVars, notSceneVars>>

\* The keyup listener
KeyUp(code) ==
  /\ code \in held
  /\ held' = held \ {code}
  /\ flags' = IF FlagOf(code) = "none" THEN flags
              ELSE [flags EXCEPT ![FlagOf(code)] = FALSE]
  /\ UNCHANGED <<notKeyVars, sceneVars, notSceneVars>>

\* ---- the controller tick (Character.update) ----

\* const speed = this.isRunning ? 8 : 4
Speed(f) == IF f.isRunning THEN RunSpeed ELSE WalkSpeed

\* A direction in which opposite flags do not cancel
DirectionNoCancel(f) ==
  [x |-> IF f.moveLeft THEN -1 ELSE IF f.moveRight THEN 1 ELSE 0,
   z |-> IF f.moveForward THEN -1 ELSE IF f.moveBackward THEN 1 ELSE 0]

\* The direction vector the flags add up to, before it is normalized
Direction(f) ==
  [x |-> (IF f.moveRight THEN 1 ELSE 0) - (IF f.moveLeft THEN 1 ELSE 0),
   z |-> (IF f.moveBackward THEN 1 ELSE 0) - (IF f.moveForward THEN 1 ELSE 0)]

\* rotationMatrix.lookAt(origin, cameraDirection, up) applied to the
\* normalized direction d: its x axis is up x (-cameraDirection), its z axis
\* is -cameraDirection
ApplyCameraRotation(d, cam) ==
  Normalize2([x |-> Quot(-cam.z * d.x - cam.x * d.z, Unit),
              z |-> Quot(cam.x * d.x - cam.z * d.z, Unit)])

\* characterModel.position += direction * velocity
Move(pos, w, velocity) ==
  [pos EXCEPT !.x = @ + Quot(w.x * velocity, Unit),
              !.z = @ + Quot(w.z * velocity, Unit)]

\* updateCamera: the offset (0, 5, 10) turned by the target's quaternion and
\* added to its position
IdealOffset(pos, f) ==
  [x |-> pos.x + CameraBack * f.x,
   y |-> pos.y + CameraUp * Unit,
   z |-> pos.z + CameraBack * f.z]

\* The push of handleCollisions away from building b
Push(pos, b) ==
  LET c == MeshPosition(b)
      len == Sqrt(DistanceSquared(pos, c))
      nx == IF len = 0 THEN 0 ELSE Quot((pos.x - c.x) * Unit, len)
      nz == IF len = 0 THEN 0 ELSE Quot((pos.z - c.z) * Unit, len)
  IN [pos EXCEPT !.x = @ + Quot(nx, PushDivisor),
                 !.z = @ + Quot(nz, PushDivisor)]

\* A collision pass that pushes away from every building without testing
\* whether the boxes intersect
RECURSIVE HandleCollisionsNoTest(_, _, _)
HandleCollisionsNoTest(i, pos, hit) ==
  IF i > Len(SceneBuildings) THEN [pos |-> pos, hit |-> hit]
  ELSE HandleCollisionsNoTest(i + 1, Push(pos, i), TRUE)

\* handleCollisions from building i on: the position it ends with, and
\* whether any box intersected
RECURSIVE HandleCollisionsFrom(_, _, _)
HandleCollisionsFrom(i, pos, hit) ==
  IF i > Len(SceneBuildings) THEN [pos |-> pos, hit |-> hit]
  ELSE IF IntersectsBox(CharacterBox(pos), BuildingBox(i))
       THEN HandleCollisionsFrom(i + 1, Push(pos, i), TRUE)
       ELSE HandleCollisionsFrom(i + 1, pos, hit)

handleCollisions(pos) == HandleCollisionsFrom(1, pos, FALSE)

\* changeAnimation; "none" is an undefined clip
changeAnimation(newAction, current) ==
  IF newAction = "none" \/ newAction = current THEN current ELSE newAction

\* this.animations.<name>
Clip(name) == IF name \in animations THEN name ELSE "none"

\* The state a tick leaves the player in
StateOf(f, d) ==
  IF d.x # 0 \/ d.z # 0
  THEN IF f.isRunning THEN "Running" ELSE "Walking"
  ELSE "Idle"

\* Character.update(delta, buildings); frameCam is where it leaves the camera
CharacterUpdate(delta) ==
  IF ~(model \/ tempModel)
  THEN /\ frameCam' = camPos
       /\ UNCHANGED <<shadowPos, charPos, facing, currentAction, moveState,
                      speed, tickFlags>>
  ELSE LET d == Direction(flags)
           moving == d.x # 0 \/ d.z # 0
           w == IF moving
                THEN ApplyCameraRotation(
                       Normalize2([x |-> d.x * Unit, z |-> d.z * Unit]), camDir)
                ELSE facing
           moved == IF moving THEN Move(charPos, w, Speed(flags) * delta)
                    ELSE charPos
           pushed == handleCollisions(moved)
       IN /\ facing' = w
          /\ charPos' = pushed.pos
          /\ shadowPos' = IF shadow /\ pushed.hit
                          THEN [x |-> pushed.pos.x, z |-> pushed.pos.z]
                          ELSE IF shadow /\ moving
                               THEN [x |-> moved.x, z |-> moved.z]
                               ELSE shadowPos
          /\ currentAction' =
               IF moving
               THEN IF mixer
                    THEN changeAnimation(
                           Clip(IF flags.isRunning THEN "run" ELSE "walk"),
                           currentAction)
                    ELSE currentAction
               ELSE IF mixer /\ "idle" \in animations
                    THEN changeAnimation("idle", currentAction)
                    ELSE currentAction
          /\ moveState' = StateOf(flags, d)
          /\ speed' = Speed(flags)
          /\ tickFlags' = flags
          /\ frameCam' = IdealOffset(moved, w)

\* ---- the frame (Portfolio.animate) ----

Max(a, b) == IF a > b THEN a ELSE b

\* this.controls.update(): OrbitControls re-derives the camera from its
\* offset to the target (the origin), with the radius kept within
\* [minDistance, maxDistance] and the polar angle within maxPolarAngle, and
\* turns it to the target.  It does so whether or not controls.enabled.
ControlsUpdate(cam) ==
  LET radius == Sqrt(cam.x * cam.x + cam.y * cam.y + cam.z * cam.z)
      r == Max(minDistance * Unit, Min(maxDistance * Unit, radius))
      flat == Sqrt(cam.x * cam.x + cam.z * cam.z)
      low == cam.y * Unit * Unit < radius * SinElevation
      y == IF low THEN Quot(r * SinElevation, Unit * Unit)
           ELSE Quot(cam.y * r, radius)
      newFlat == IF low THEN Quot(r * CosElevation, Unit * Unit)
                 ELSE Quot(flat * r, radius)
  IN [x |-> IF flat = 0 THEN 0 ELSE Quot(cam.x * newFlat, flat),
      y |-> y,
      z |-> IF flat = 0 THEN 0 ELSE Quot(cam.z * newFlat, flat)]

\* camera.getWorldDirection with y cleared, normalized, of a camera that
\* looks at the origin; a null direction makes Matrix4.lookAt use +z as its
\* z axis, which is the direction -z
CameraDirection(cam) ==
  IF cam.x = 0 /\ cam.z = 0 THEN [x |-> 0, z |-> -Unit]
  ELSE Normalize2([x |-> -cam.x, z |-> -cam.z])

\* isInViewFrustum(object): false for an object without geometry, else
\* whether the frustum intersects it
isInViewFrustum(hasGeometry, intersects) == hasGeometry /\ intersects

\* building.mesh is a THREE.Group, which has no geometry
MeshHasGeometry == FALSE

\* A loop body without any test: every building is updated in every frame
DueEvery(b, cam, fr) == TRUE

\* The test of the loop body: not farther than FarDistance, and a member of
\* visibleBuildings or in the view frustum
Due(b, cam, fr) ==
  /\ ~(DistanceSquared(MeshPosition(b), cam)
         > (FarDistance * Unit) * (FarDistance * Unit))
  /\ (b \in visibleBuildings \/ isInViewFrustum(MeshHasGeometry, b \in fr))

\* A loop whose body has no try/catch: the first throwing update ends it
BuildingsLoopNoCatch(cam, thr, fr) ==
  LET failing == {b \in SceneBuildingIds : Due(b, cam, fr) /\ b \in thr}
      reached(b) == \A f \in failing : b <= f
  IN [updated |-> [b \in SceneBuildingIds |->
                     IF Due(b, cam, fr) /\ reached(b) THEN 1 ELSE 0],
      caught |-> 0,
      completed |-> failing = {}]

\* this.buildings.forEach of animate, with the camera at cam, thr the
\* buildings whose update throws and fr those the frustum intersects
BuildingsLoop(cam, thr, fr) ==
  [updated |-> [b \in SceneBuildingIds |-> IF Due(b, cam, fr) THEN 1 ELSE 0],
   caught |-> Cardinality({b \in SceneBuildingIds : Due(b, cam, fr) /\ b \in thr}),
   completed |-> TRUE]

NoUpdates == [b \in SceneBuildingIds |-> 0]

\* The sets of buildings whose update throws in one frame
ThrowingSets == {{}} \cup {{b} : b \in SceneBuildingIds}

\* The sets of buildings the frustum intersects in one frame
FrustumSets == {{}, SceneBuildingIds}

Animate(delta, thr, fr) ==
  /\ frames < MaxFrames
  /\ frames' = frames + 1
  /\ IF refsNulled
     THEN \* this.camera is null: updateFrustum throws a TypeError
          /\ frameThrew' = TRUE
          /\ rendered' = FALSE
          /\ updated' = NoUpdates
          /\ throwing' = {}
          /\ inFrustum' = {}
          /\ caught' = 0
          /\ scaled' = {}
          /\ logoFaced' = {}
          /\ UNCHANGED <<shadowPos, charPos, facing, currentAction, moveState,
                         speed, tickFlags, camPos, camDir, frameCam>>
     ELSE /\ IF hasCharacter
             THEN CharacterUpdate(delta)
             ELSE /\ frameCam' = ControlsUpdate(camPos)
                  /\ UNCHANGED <<shadowPos, charPos, facing, currentAction,
                                 moveState, speed, tickFlags>>
          /\ Abs(charPos'.x) <= WorldLimit
          /\ Abs(charPos'.z) <= WorldLimit
          /\ LET loop == BuildingsLoop(frameCam', thr, fr)
                 done == {b \in SceneBuildingIds :
                            loop.updated[b] = 1 /\ b \notin thr}
             IN /\ updated' = loop.updated
                /\ caught' = loop.caught
                /\ throwing' = thr
                /\ inFrustum' = fr
                /\ scaled' = {b \in done : SceneBuildings[b].type = "main"}
                /\ logoFaced' = done \cap logos
                /\ rendered' = loop.completed
                /\ frameThrew' = ~loop.completed
                /\ camPos' = IF loop.completed THEN ControlsUpdate(frameCam')
                             ELSE frameCam'
                /\ camDir' = IF loop.completed
                             THEN CameraDirection(ControlsUpdate(frameCam'))
                             ELSE IF hasCharacter
                                  THEN [x |-> -facing'.x, z |-> -facing'.z]
                                  ELSE CameraDirection(frameCam')
  /\ UNCHANGED <<tempModel, model, shadow, flags, held, mixer, animations>>
  /\ UNCHANGED <<sceneObjects, logos, modelLoad, logoLoad, hasCharacter,
                 refsNulled, disposeCalls, disposeThrew, released>>
  /\ UNCHANGED notSceneVars

\* ---- the asynchronous loads ----

\* The clips a loaded file can bring
GltfClips == {{}, {"idle", "walk", "run"}}

\* The texture of the logo of building b
TextureOf(b) == "logoTexture" \o ToString(b)

Resources ==
  {"tempModel.geometry", "tempModel.material", "shadow.geometry",
   "shadow.material", "model", "geometryCache", "materialCache", "renderer"}
    \cup {TextureOf(b) : b \in {c \in SceneBuildingIds : SceneBuildings[c].logoTexture}}

\* dispose() is called once on each resource of S
Release(rel, S) == [r \in Resources |-> rel[r] + IF r \in S THEN 1 ELSE 0]

\* The success callback of loader.load in Character.loadModel
ModelLoaded(clips) ==
  /\ modelLoad = "pending"
  /\ modelLoad' = "loaded"
  /\ tempModel' = FALSE
  /\ released' = IF tempModel
                 THEN Release(released, {"tempModel.geometry", "tempModel.material"})
                 ELSE released
  /\ model' = TRUE
  /\ charPos' = [x |-> 0, y |-> 0, z |-> 0]
  /\ facing' = [x |-> 0, z |-> Unit]
  /\ sceneObjects' = (sceneObjects \ {"tempModel"}) \cup {"model"}
  /\ mixer' = IF clips # {} THEN TRUE ELSE mixer
  /\ animations' = animations \cup clips
  /\ currentAction' = IF "idle" \in clips THEN "idle" ELSE currentAction
  /\ UNCHANGED <<shadow, shadowPos, flags, held, moveState, speed, tickFlags,
                 camPos, camDir>>
  /\ UNCHANGED <<logos, logoLoad, hasCharacter, refsNulled, frames, updated,
                 throwing, inFrustum, caught, scaled, logoFaced, rendered,
                 frameThrew, frameCam, disposeCalls, disposeThrew>>
  /\ UNCHANGED notSceneVars

\* The error callback of loader.load in Character.loadModel
ModelLoadFailed ==
  /\ modelLoad = "pending"
  /\ modelLoad' = "failed"
  /\ UNCHANGED charVars
  /\ UNCHANGED <<sceneObjects, logos, logoLoad, hasCharacter, refsNulled,
                 frames, updated, throwing, inFrustum, caught, scaled,
                 logoFaced, rendered, frameThrew, frameCam, disposeCalls,
                 disposeThrew, released>>
  /\ UNCHANGED notSceneVars

\* The callback of Building.textureLoader.load in Building.addLogo
LogoLoaded(b) ==
  /\ b \in logoLoad
  /\ logoLoad' = logoLoad \ {b}
  /\ logos' = logos \cup {b}
  /\ UNCHANGED charVars
  /\ UNCHANGED <<sceneObjects, modelLoad, hasCharacter, refsNulled, frames,
                 updated, throwing, inFrustum, caught, scaled, logoFaced,
                 rendered, frameThrew, frameCam, disposeCalls, disposeThrew,
                 released>>
  /\ UNCHANGED notSceneVars

\* ---- the disposal (Portfolio.dispose) ----

\* What Character.dispose releases
CharacterResources ==
  (IF model THEN {"model"} ELSE {})
    \cup (IF tempModel THEN {"tempModel.geometry", "tempModel.material"} ELSE {})
    \cup (IF shadow THEN {"shadow.geometry", "shadow.material"} ELSE {})

Dispose ==
  /\ disposeCalls < MaxDisposeCalls
  /\ disposeCalls' = disposeCalls + 1
  /\ IF refsNulled
     THEN \* this.buildings is null: this.buildings.forEach throws a TypeError
          /\ disposeThrew' = TRUE
          /\ UNCHANGED <<tempModel, model, shadow, mixer, animations,
                         currentAction, sceneObjects, hasCharacter,
                         refsNulled, released>>
     ELSE /\ disposeThrew' = FALSE
          \* Building.dispose releases the texture of an attached logo, and
          \* the walk over the material cache releases the map of every
          \* cached material, the logo materials among them
          /\ released' =
               Release(
                 Release(released, {TextureOf(b) : b \in logos}),
                 (IF hasCharacter THEN CharacterResources ELSE {})
                   \cup {"geometryCache", "materialCache", "renderer"}
                   \cup {TextureOf(b) : b \in logos})
          /\ IF hasCharacter
             THEN /\ sceneObjects' = sceneObjects \ {"model", "tempModel", "shadow"}
                  /\ model' = FALSE
                  /\ tempModel' = FALSE
                  /\ shadow' = FALSE
                  /\ mixer' = FALSE
                  /\ animations' = {}
                  /\ currentAction' = "none"
             ELSE UNCHANGED <<sceneObjects, model, tempModel, shadow, mixer,
                              animations, currentAction>>
          /\ hasCharacter' = FALSE
          /\ refsNulled' = TRUE
  /\ UNCHANGED <<shadowPos, charPos, facing, flags, held, moveState, speed,
                 tickFlags, camPos, camDir>>
  /\ UNCHANGED <<logos, modelLoad, logoLoad, frames, updated, throwing,
                 inFrustum, caught, scaled, logoFaced, rendered, frameThrew,
                 frameCam>>
  /\ UNCHANGED notSceneVars

\* The state main.js leaves: the Portfolio constructed, its first frame run
\* by the constructor, and initCharacterMode called
InitScene ==
  /\ tempModel = TRUE
  /\ model = FALSE
  /\ shadow = TRUE
  /\ shadowPos = [x |-> 0, z |-> 0]
  /\ charPos = [x |-> 0, y |-> Unit, z |-> 0]
  /\ facing = [x |-> 0, z |-> Unit]
  /\ flags = NoFlags
  /\ held = {}
  /\ mixer = FALSE
  /\ animations = {}
  /\ currentAction = "none"
  /\ moveState = "none"
  /\ speed = 0
  /\ tickFlags = NoFlags
  /\ camPos = [x |-> 0, y |-> 10 * Unit, z |-> 20 * Unit]
  /\ camDir = [x |-> 0, z |-> -Unit]
  /\ sceneObjects = {"tempModel", "shadow"}
  /\ logos = {}
  /\ modelLoad = "pending"
  /\ logoLoad = {b \in SceneBuildingIds : SceneBuildings[b].logoTexture}
  /\ hasCharacter = TRUE
  /\ refsNulled = FALSE
  /\ frames = 0
  /\ updated = [b \in SceneBuildingIds |-> IF b \in visibleBuildings THEN 1 ELSE 0]
  /\ throwing = {}
  /\ inFrustum = {}
  /\ caught = 0
  /\ scaled = {b \in visibleBuildings : SceneBuildings[b].type = "main"}
  /\ logoFaced = {}
  /\ rendered = TRUE
  /\ frameThrew = FALSE
  /\ frameCam = [x |-> 0, y |-> 10 * Unit, z |-> 20 * Unit]
  /\ disposeCalls = 0
  /\ disposeThrew = FALSE
  /\ released = [r \in Resources |-> 0]

(***************************************************************************)
(* Specifications                                                          *)
(***************************************************************************)

InitCache ==
  /\ geometryCache = EmptyCache
  /\ materialCache = EmptyCache
  /\ nextHandle = 1
  /\ calls = <<>>

NextCache ==
  \/ \E t \in CalledGeometryKinds, p \in CalledGeometryParams : PortfolioGetGeometry(t, p)
  \/ \E t \in CalledGeometryKinds, p \in CalledGeometryParams : BuildingGetGeometry(t, p)
  \/ \E t \in CalledMaterialKinds, p \in CalledMaterialParams : PortfolioGetMaterial(t, p)
  \/ \E t \in CalledMaterialKinds, p \in CalledMaterialParams : BuildingGetMaterial(t, p)

\* The cache and its getters, from the empty caches of the constructor.
InitCacheSpec == InitCache /\ InitPlaceIdle /\ InitRuns /\ InitTreesIdle /\ InitPanel /\ InitBuild /\ InitWindows /\ InitCityBuilt /\ InitScene

SpecCache == InitCacheSpec /\ [][NextCache]_vars

NextPlace ==
  \/ CollectCandidates
  \/ SelectPosition
  \/ SelectDone
  \/ CreateResidential
  \/ CreateDone

\* One run of addResidentialDistrict.
InitPlaceSpec == InitCache /\ InitPlace /\ InitRuns /\ InitTreesIdle /\ InitPanel /\ InitBuild /\ InitWindows /\ InitCityBuilt /\ InitScene

SpecPlace == InitPlaceSpec /\ [][NextPlace]_vars

NextPanel ==
  \/ \E intersects \in Intersects : OnMouseClick(intersects)
  \/ CloseButtonClick
  \/ HideTimerFires

\* Clicks on buildings and beside them, and the panel's hide timers.
InitPanelSpec == InitCache /\ InitPlaceIdle /\ InitRuns /\ InitTreesIdle /\ InitPanel /\ InitBuild /\ InitWindows /\ InitCityBuilt /\ InitScene

SpecPanel == InitPanelSpec /\ [][NextPanel]_vars

NextScene ==
  \/ \E code \in SceneKeyCodes : KeyDown(code)
  \/ \E code \in SceneKeyCodes : KeyUp(code)
  \/ \E delta \in Deltas, thr \in ThrowingSets, fr \in FrustumSets :
       Animate(delta, thr, fr)
  \/ ModelLoaded({"idle", "walk", "run"})
  \/ \E b \in SceneBuildingIds : LogoLoaded(b)
  \/ Dispose

InitSceneSpec == InitCache /\ InitPlaceIdle /\ InitRuns /\ InitTreesIdle /\ InitPanel /\ InitBuild /\ InitWindows /\ InitCityBuilt /\ InitScene

SpecScene == InitSceneSpec /\ [][NextScene]_vars

NextChar ==
  \/ \E code \in KeyCodes : KeyDown(code)
  \/ \E code \in KeyCodes : KeyUp(code)
  \/ \E delta \in Deltas : Animate(delta, {}, {})
  \/ \E clips \in GltfClips : ModelLoaded(clips)
  \/ ModelLoadFailed

InitCharSpec == InitCache /\ InitPlaceIdle /\ InitRuns /\ InitTreesIdle /\ InitPanel /\ InitBuild /\ InitWindows /\ InitCityBuilt /\ InitScene

SpecChar == InitCharSpec /\ [][NextChar]_vars

\* The keys bound to the four movement flags
MoveKeyCodes == {"KeyW", "ArrowUp", "KeyS", "ArrowDown",
                 "KeyA", "ArrowLeft", "KeyD", "ArrowRight"}

NextKeys ==
  \/ \E code \in MoveKeyCodes : KeyDown(code)
  \/ \E code \in MoveKeyCodes : KeyUp(code)

\* Keys are pressed and released, no frame runs.
InitKeysSpec == InitCache /\ InitPlaceIdle /\ InitRuns /\ InitTreesIdle /\ InitPanel /\ InitBuild /\ InitWindows /\ InitCityBuilt /\ InitScene

SpecKeys == InitKeysSpec /\ [][NextKeys]_vars

NextBuild == \E type \in BuildTypes, color \in BuildColors : Build(type, color)

\* Buildings constructed one after another.
InitBuildSpec == InitCache /\ InitPlaceIdle /\ InitRuns /\ InitTreesIdle /\ InitPanel /\ InitBuild /\ InitWindows /\ InitCityBuilt /\ InitScene

SpecBuild == InitBuildSpec /\ [][NextBuild]_vars

NextRuns ==
  \/ NextPlace
  \/ Regenerate

\* Two runs of the generation of the residential district, as createCity
\* calls it.
InitRunsSpec == InitCache /\ InitPlace /\ InitRuns /\ InitTreesIdle /\ InitPanel /\ InitBuild /\ InitWindows /\ InitCityBuilt /\ InitScene

SpecRuns == InitRunsSpec /\ [][NextRuns]_vars

NextWindows ==
  \E width \in WindowWidths, height \in WindowHeights, depth \in WindowDepths,
     skips \in SkipTapes : AddWindows(width, height, depth, skips)

\* Buildings of several sizes get their windows.
InitWindowsSpec == InitCache /\ InitPlaceIdle /\ InitRuns /\ InitTreesIdle /\ InitPanel /\ InitBuild /\ InitWindows /\ InitCityBuilt /\ InitScene

SpecWindows == InitWindowsSpec /\ [][NextWindows]_vars

NextCity ==
  \/ CreateGround
  \/ AddLandmark
  \/ EnterResidentialDistrict
  \/ cityPc = "residential" /\ NextPlace
  \/ AddRoads
  \/ AddEnvironmentalElements

\* createCity runs from its first statement.
InitCitySpec == InitCache /\ InitPlace /\ InitRuns /\ InitTreesIdle /\ InitPanel /\ InitBuild /\ InitWindows /\ InitCity /\ InitScene

SpecCity == InitCitySpec /\ [][NextCity]_vars

NextTrees ==
  \/ PlaceFixedTrees
  \/ SampleTree
  \/ TreesDone

\* One run of addTrees.  The function runs to its end without yielding, so
\* a loop pass that can be taken is taken.
InitTreesSpec == InitCache /\ InitTape /\ InitRuns /\ InitTrees /\ InitPanel /\ InitBuild /\ InitWindows /\ InitCityBuilt /\ InitScene

SpecTrees == InitTreesSpec /\ [][NextTrees]_vars /\ WF_vars(NextTrees)

(***************************************************************************)
(* Claims                                                                  *)
(***************************************************************************)

\* Structural equality of two argument lists: the same kind and, for a
\* geometry, the same numbers in the same places; for a material, the same
\* properties with the same values (a JS object is its property/value map).
PropsOf(params) == {params[i] : i \in 1..Len(params)}

StructurallyEqual(c, d) ==
  /\ c.res = d.res
  /\ c.type = d.type
  /\ IF c.res = "geometry" THEN c.params = d.params
     ELSE PropsOf(c.params) = PropsOf(d.params)

\* C1: on one cache, two getter calls with structurally equal arguments give
\* the same handle and two calls with differing arguments give different
\* handles, through the scene-level getter and a Building's getter alike
\* (kinds every getter recognises).
C1_SameArgsSameHandle ==
  \A i, j \in 1..Len(calls) :
    LET c == calls[i]
        d == calls[j]
    IN (c.res = d.res /\ c.out.tag = "handle" /\ d.out.tag = "handle")
         => (StructurallyEqual(c, d) <=> c.out.id = d.out.id)

\* The areas residential placement keeps clear, each a rectangle given by its
\* centre and its half extents: the two main-road bands, the central square
\* and the five landmark footprints around (16,16), (-16,16), (16,-16),
\* (-16,-16) and (0,-24).
ExclusionRectangles ==
  { [cx |-> 0, cz |-> 0, hx |-> 10, hz |-> 20],
    [cx |-> 0, cz |-> 0, hx |-> 20, hz |-> 10],
    [cx |-> 0, cz |-> 0, hx |-> 12, hz |-> 12],
    [cx |-> 16, cz |-> 16, hx |-> 8, hz |-> 8],
    [cx |-> -16, cz |-> 16, hx |-> 8, hz |-> 8],
    [cx |-> 16, cz |-> -16, hx |-> 8, hz |-> 8],
    [cx |-> -16, cz |-> -16, hx |-> 8, hz |-> 8],
    [cx |-> 0, cz |-> -24, hx |-> 8, hz |-> 8] }

InsideRectangle(p, r) ==
  /\ r.cx * Scale - r.hx * Scale < p.x /\ p.x < r.cx * Scale + r.hx * Scale
  /\ r.cz * Scale - r.hz * Scale < p.z /\ p.z < r.cz * Scale + r.hz * Scale

OutsideAll(p) == \A r \in ExclusionRectangles : ~InsideRectangle(p, r)

AllCells == 0..(gridCells * gridCells - 1)

\* C6: every position residential placement hands over, and every residential
\* building it has created when it returns, lies outside every exclusion
\* rectangle, whatever the random draws were.
C6_PlacementOutsideExclusions ==
  /\ (placePc = "build" /\ residential = <<>>) =>
       \A i \in 1..Len(selectedPositions) : OutsideAll(selectedPositions[i])
  /\ placePc = "done" =>
       \A i \in 1..Len(residential) :
         OutsideAll([x |-> residential[i].posX, z |-> residential[i].posZ])

\* A run that rejected candidates and returned positions, one of them on the
\* very edge of the central band (x = 20, which is not inside).
C6_Witness ==
  /\ placePc = "done"
  /\ Len(selectedPositions) > 0
  /\ \E n \in AllCells : ~OutsideAll(Candidate(n))
  /\ \E i \in 1..Len(selectedPositions) :
       Abs(selectedPositions[i].x) = 20 * Scale /\ Abs(selectedPositions[i].z) < 10 * Scale

\* The cells whose candidate survived exclusion.
SurvivingCells == {n \in AllCells : OutsideAll(Candidate(n))}

\* C7: asked for N positions, placement returns exactly min(N, M) of them,
\* M the number of cells whose candidate survived; each is the candidate of
\* a surviving cell and no cell is chosen twice.  Stated of the list the
\* drawing loop hands over, which nothing changes afterwards.
C7_ReturnsMinOfRequestedAndAvailable ==
  (placePc = "build" /\ residential = <<>>) =>
    LET chosen == {selectedPositions[i] : i \in 1..Len(selectedPositions)}
    IN /\ Len(selectedPositions) = Min(buildingCount, Cardinality(SurvivingCells))
       /\ chosen \subseteq {Candidate(n) : n \in SurvivingCells}
       /\ Cardinality(chosen) = Len(selectedPositions)

\* A run asked for more positions than cells survived: it returned them all.
C7_Witness ==
  /\ placePc = "build" /\ residential = <<>>
  /\ Cardinality(SurvivingCells) < buildingCount
  /\ Len(selectedPositions) = Cardinality(SurvivingCells)
  /\ Len(selectedPositions) > 0

\* A run asked for fewer positions than survived.
C7_WitnessEnough ==
  /\ placePc = "build" /\ residential = <<>>
  /\ buildingCount < Cardinality(SurvivingCells)
  /\ Len(selectedPositions) = buildingCount

\* C9: highlight() followed by unhighlight() restores the emissive colour and
\* the emissive intensity of every visual part of the building to what they
\* were before highlight().
C9_UnhighlightRestores ==
  lastToggle.op = "unhighlight" =>
    \A i \in 1..Len(PartsOf(lastToggle.building)) :
      LET p == PartsOf(lastToggle.building)[i]
      IN ~p.isLogo => materials[p.material] = beforeHighlight[p.material]

\* C2: in every animation frame each member of the always-active set, the
\* landmark buildings of visibleBuildings, receives exactly one update call,
\* however far it is from the camera.
C2_AlwaysSetUpdatedEveryFrame ==
  (frames > 0 /\ rendered) => \A b \in visibleBuildings : updated[b] = 1

\* C3: a call of dispose after a first call has completed raises no error and
\* releases no resource again.
C3_DisposeIdempotent ==
  [][(disposeCalls >= 1 /\ disposeCalls' = disposeCalls + 1)
       => (~disposeThrew' /\ released' = released)]_vars

\* C4: once the scene is disposed, a load callback that fires adds no object
\* to the scene and attaches none to a building of it.
C4_StaleCallbackAddsNothing ==
  [][disposeCalls >= 1
       => (sceneObjects' \subseteq sceneObjects /\ logos' \subseteq logos)]_vars

\* C5: when the loaded model replaces the placeholder capsule, the player
\* stands where the capsule stood (the ground coordinates x and z, the origin
\* of the capsule being its centre and that of the model its feet) and faces
\* the way it faced.
C5_SwapPreservesPose ==
  [][(tempModel /\ ~model /\ model')
       => (charPos'.x = charPos.x /\ charPos'.z = charPos.z /\ facing' = facing)]_vars

\* C8: when the update of a building throws in a frame, the error is caught
\* inside that frame: every building due an update in the frame is still
\* called, once, and the frame goes on to render.
C8_UpdateFailureContained ==
  throwing # {} =>
    /\ rendered
    /\ ~frameThrew
    /\ \A b \in SceneBuildingIds :
         Due(b, frameCam, inFrustum) => updated[b] = 1
    /\ caught = Cardinality({b \in throwing : Due(b, frameCam, inFrustum)})

\* A frame in which the update of one due building threw and was caught, a
\* building later in the list was still updated, and the frame rendered
C8_Witness ==
  /\ frames > 0
  /\ rendered
  /\ caught = 1
  /\ \E b \in throwing :
       /\ updated[b] = 1
       /\ \E c \in SceneBuildingIds \ throwing : c > b /\ updated[c] = 1

\* C10 as stated: after a tick the player is Idle exactly when none of
\* forward, back, left, right is set, else Running if the run flag is set and
\* Walking otherwise, and moves at the speed of that state.
C10_StateFromFlags ==
  moveState # "none" =>
    /\ moveState =
         IF ~(tickFlags.moveForward \/ tickFlags.moveBackward
                \/ tickFlags.moveLeft \/ tickFlags.moveRight)
         THEN "Idle"
         ELSE IF tickFlags.isRunning THEN "Running" ELSE "Walking"
    /\ (moveState = "Running" => speed = RunSpeed)
    /\ (moveState = "Walking" => speed = WalkSpeed)

\* C10, amended: after a tick the player is Idle exactly when the directional
\* flags cancel out (forward and back both set or both clear, and left and
\* right both set or both clear), else Running if the run flag is set and
\* Walking otherwise, and moves at the speed of that state.
C10_StateFromNetDirection ==
  moveState # "none" =>
    /\ moveState =
         IF (tickFlags.moveForward = tickFlags.moveBackward)
              /\ (tickFlags.moveLeft = tickFlags.moveRight)
         THEN "Idle"
         ELSE IF tickFlags.isRunning THEN "Running" ELSE "Walking"
    /\ (moveState = "Running" => speed = RunSpeed)
    /\ (moveState = "Walking" => speed = WalkSpeed)

\* A tick that read forward and back both set, and left the player Idle
C10_Witness ==
  /\ moveState = "Idle"
  /\ tickFlags.moveForward
  /\ tickFlags.moveBackward

\* ---- C11 ----

\* The player's box at pos and the box of building b share a point
Overlaps(pos, b) ==
  LET p == CharacterBox(pos)
      q == BuildingBox(b)
  IN /\ p.minX <= q.maxX /\ q.minX <= p.maxX
     /\ p.minZ <= q.maxZ /\ q.minZ <= p.maxZ

OverlapsAny(pos) == \E b \in SceneBuildingIds : Overlaps(pos, b)

NoDirectionalInput(f) ==
  ~f.moveForward /\ ~f.moveBackward /\ ~f.moveLeft /\ ~f.moveRight

\* A frame that runs Character.update on an existing player object
ControllerTick ==
  /\ frames' = frames + 1
  /\ hasCharacter /\ ~refsNulled
  /\ model \/ tempModel

\* C11: a controller tick that starts with no directional input flag set and
\* with the player's box intersecting no building's box leaves the player's
\* position unchanged.
C11_RestTickKeepsPosition ==
  [][(ControllerTick /\ NoDirectionalInput(flags) /\ ~OverlapsAny(charPos))
       => charPos' = charPos]_vars

\* A second frame found the player at rest far outside every box (a push
\* is a tenth of a unit, so that frame also started outside every box)
C11_Witness ==
  /\ frames >= 2
  /\ moveState = "Idle"
  /\ NoDirectionalInput(tickFlags)
  /\ ~OverlapsAny(charPos)
  /\ Abs(charPos.z) > 100 * Unit

\* ---- C12 ----

\* The positions of the intersects that belong to a building
EntityHits(intersects) == {i \in 1..Len(intersects) : intersects[i] # 0}

C12_WitnessGround ==
  /\ lastClick.clicked
  /\ lastClick.intersects = <<0>>
  /\ lastClick.hidden = 1

\* ---- C13 ----

\* The kinds the switch of a getter recognises
RecognisedKinds(getter, res) ==
  IF res = "material" THEN MaterialKinds
  ELSE IF getter = "portfolio" THEN PortfolioGeometryKinds
  ELSE BuildingGeometryKinds

\* C13: a getter call with a kind its switch does not recognise fails at
\* the call (it gives back neither a handle nor undefined) and leaves both
\* caches as they were, for the getters of Portfolio and of Building alike.
C13_UnknownKindFails ==
  [][(Len(calls') = Len(calls) + 1
        /\ calls'[Len(calls')].type
              \notin RecognisedKinds(calls'[Len(calls')].getter,
                                     calls'[Len(calls')].res))
       => /\ calls'[Len(calls')].out = Thrown
          /\ geometryCache' = geometryCache
          /\ materialCache' = materialCache]_vars

\* ---- C14 ----

\* C14: a building constructed with a type that is none of the recognised
\* ones is constructed without failure and has the parts of the standard
\* recipe.
C14_UnknownTypeBuildsStandard ==
  \A i \in 1..Len(built) :
    built[i].type \notin SpecialTypes \cup {"standard"} =>
      /\ ~built[i].threw
      /\ built[i].parts = StandardParts(built[i].color)

\* A building of type "office" and a building of type "standard" of the
\* same colour were constructed
C14_Witness ==
  /\ Len(built) = 2
  /\ built[1].type = "office"
  /\ built[2].type = "standard"
  /\ built[1].color = built[2].color
  /\ built[1].parts = built[2].parts

\* ---- C15 ----

\* C15: the loop that places the random trees ends, whatever outcomes
\* Math.random() gives.
C15_TreeLoopTerminates == <>(treePc = "done")

\* ---- C16 ----

\* Building b is farther from the camera at cam than the cutoff distance
Far(b, cam) ==
  DistanceSquared(MeshPosition(b), cam)
    > (FarDistance * Unit) * (FarDistance * Unit)

\* C16: in every frame, a building that is not in the always-active set,
\* is farther from the camera than the cutoff distance and is outside the
\* camera frustum gets no update call.
C16_FarUnseenNotUpdated ==
  \A b \in SceneBuildingIds \ visibleBuildings :
    (Far(b, frameCam) /\ b \notin inFrustum) => updated[b] = 0

\* A rendered frame that updated a landmark while the residential building
\* was far from the camera and outside the frustum
C16_Witness ==
  /\ frames > 0
  /\ rendered
  /\ \E b \in SceneBuildingIds \ visibleBuildings :
       Far(b, frameCam) /\ b \notin inFrustum
  /\ \E b \in visibleBuildings : updated[b] = 1

\* ---- C18 ----

\* C18: in every frame that renders, a building that is not in the
\* always-active set, is within the cutoff distance of the camera and whose
\* bounding volume the frustum intersects gets exactly one update call.
C18_NearSeenUpdatedOnce ==
  (frames > 0 /\ rendered) =>
    \A b \in SceneBuildingIds \ visibleBuildings :
      (~Far(b, frameCam) /\ b \in inFrustum) => updated[b] = 1

\* ---- C17 ----

\* C17: two runs of the city generation select the same list of positions.
\* (The program takes no seed and never seeds Math.random(), so a seed the
\* two runs are said to share has no part in either.)
C17_RunsSelectSamePositions ==
  (previousRun.done /\ placePc = "done") =>
    selectedPositions = previousRun.positions

\* ---- C19 ----

\* Where the player stood when updateCamera ran, which is after the
\* movement of the tick and before its collision pass: the camera is put at
\* that position plus the turned offset
AfterMove ==
  [x |-> frameCam.x - CameraBack * facing.x,
   y |-> frameCam.y - CameraUp * Unit,
   z |-> frameCam.z - CameraBack * facing.z]

\* The player at pos is not straight above or below the centre of b
OffCentre(pos, b) ==
  pos.x # MeshPosition(b).x \/ pos.z # MeshPosition(b).z

\* C19: on every tick in which the player's box intersects a building's
\* box, the collision pass changes the player's horizontal position.  (A
\* push away from a centre the player is not straight above or below counts
\* as a change even when it is below a hundredth of a unit.)
C19_CollisionPushesHorizontally ==
  [][ControllerTick =>
       \A b \in SceneBuildingIds :
         Overlaps(AfterMove', b) =>
           \/ charPos'.x # AfterMove'.x
           \/ charPos'.z # AfterMove'.z
           \/ OffCentre(AfterMove', b)]_vars

\* ---- C20 ----

\* C20: at the end of every controller tick the camera is at the player's
\* final position of that tick plus the follow offset turned by the player's
\* orientation, also when the collision pass moved the player.
C20_CameraFollowsFinalPosition ==
  [][ControllerTick => frameCam' = IdealOffset(charPos', facing')]_vars

\* ---- C21 ----

\* C21: one dispose call releases every geometry, material and texture at
\* most once: nothing released in the walk over the buildings is released
\* again in the walk over the caches.
C21_DisposeReleasesOnce ==
  [][(disposeCalls' = disposeCalls + 1 /\ ~disposeThrew')
       => \A r \in Resources : released'[r] <= released[r] + 1]_vars

\* ---- C22 ----

\* C22: once every pending hide timer has fired, the panel is displayed
\* exactly when a building is selected.
C22_PanelShownIffSelected ==
  pendingHides = 0 => (panelShown <=> selectedBuilding # 0)

\* ---- C23 ----

\* C23: once dispose has completed, no frame callback raises an error.
C23_NoFrameErrorAfterDispose ==
  [][(refsNulled /\ frames' = frames + 1) => ~frameThrew']_vars

\* ---- C24 ----

\* C24: the number of transforms addWindows writes, which is also the count
\* it sets on the batch, never exceeds the capacity the batch was allocated
\* with.
C24_WritesWithinCapacity ==
  windows.built =>
    (Len(windows.writes) <= windows.capacity /\ windows.count <= windows.capacity)

\* ---- C30 ----

\* The cells of the front grid and of the side grid whose skip test failed
FrontCells ==
  {k \in 0..(windowsHorizontal(windows.width) * windowsVertical(windows.height) - 1) :
     ~windows.skips[k % TapeLen]}
SideCells ==
  {k \in 0..(windowsHorizontal(windows.depth) * windowsVertical(windows.height) - 1) :
     ~windows.skips[(windowsHorizontal(windows.width)
                       * windowsVertical(windows.height) + k) % TapeLen]}

\* The writes made for one face
WritesOf(face) == {n \in DOMAIN windows.writes : windows.writes[n].face = face}

\* One write per cell of the set, for this face
OnePerCell(face, cells) ==
  /\ {windows.writes[n].cell : n \in WritesOf(face)} = cells
  /\ Cardinality(WritesOf(face)) = Cardinality(cells)

\* C30: the windows of a building are in one instanced batch; every
\* surviving cell gets one transform for the front and one for the back face
\* and, when the building is wider than 1.5, one for the right and one for
\* the left face; each transform translates onto its own face: front and
\* back at z = +/-(depth/2 + windowDepth/2), right and left at
\* x = +/-(width/2 + windowDepth/2).
C30_OneTransformPerCellOnItsFace ==
  windows.built =>
    /\ windows.batches = 1
    /\ OnePerCell("front", FrontCells)
    /\ OnePerCell("back", FrontCells)
    /\ OnePerCell("right", IF windows.width > SideThreshold THEN SideCells ELSE {})
    /\ OnePerCell("left", IF windows.width > SideThreshold THEN SideCells ELSE {})
    /\ \A n \in DOMAIN windows.writes :
         LET w == windows.writes[n]
         IN /\ w.face = "front" => w.matrix.z = windows.depth * 50 + windowDepth \div 2
            /\ w.face = "back" => w.matrix.z = -(windows.depth * 50 + windowDepth \div 2)
            /\ w.face = "right" => w.matrix.x = windows.width * 50 + windowDepth \div 2
            /\ w.face = "left" => w.matrix.x = -(windows.width * 50 + windowDepth \div 2)

\* The same without the placing of the side faces: the batch, the counts
\* and the front and back faces
C30_FrontAndBackOnTheirFaces ==
  windows.built =>
    /\ windows.batches = 1
    /\ OnePerCell("front", FrontCells)
    /\ OnePerCell("back", FrontCells)
    /\ OnePerCell("right", IF windows.width > SideThreshold THEN SideCells ELSE {})
    /\ OnePerCell("left", IF windows.width > SideThreshold THEN SideCells ELSE {})
    /\ \A n \in DOMAIN windows.writes :
         LET w == windows.writes[n]
         IN /\ w.face = "front" => w.matrix.z = windows.depth * 50 + windowDepth \div 2
            /\ w.face = "back" => w.matrix.z = -(windows.depth * 50 + windowDepth \div 2)

\* ---- C25 ----

\* C25: whatever was highlighted and unhighlighted, every part of every
\* building that is not highlighted now has the emissive colour and
\* intensity its material was built with.
C25_OthersKeepBuiltEmissive ==
  \A b \in BuildingIds :
    b # selectedBuilding =>
      \A i \in 1..Len(PartsOf(b)) :
        materials[PartsOf(b)[i].material] = BuiltEmissive(PartsOf(b)[i].material)

\* ---- C26 ----

\* A building is in the highlighted state while a part of it carries the
\* userData.originalColor mark highlight() sets and unhighlight() deletes
Highlighted(b) == \E i \in 1..Len(PartsOf(b)) : Truthy(originalColor[b][i])

\* C26: the highlighted buildings are exactly the selected one: none when
\* nothing is selected, never more than one.
C26_OnlySelectedHighlighted ==
  \A b \in BuildingIds : Highlighted(b) <=> b = selectedBuilding

\* A building selected and highlighted by a click made after another
\* building had been selected
C26_Witness ==
  /\ selectedBuilding = 2
  /\ Highlighted(2)
  /\ lastClick.clicked
  /\ lastClick.shown = <<2>>
  /\ beforeHighlight # [m \in AllMaterials |-> BuiltEmissive(m)]

\* ---- C27 ----

MoveFlags == {"moveForward", "moveBackward", "moveLeft", "moveRight"}

\* C27: each movement flag is true exactly when at least one of the keys
\* bound to it is held down.
C27_FlagIffSomeKeyHeld ==
  \A f \in MoveFlags : flags[f] <=> (\E code \in held : FlagOf(code) = f)

\* ---- C28 ----

\* The place of a step in the order: ground, landmarks, roads, residential
\* fill, environmental props
StepRank(step) ==
  CASE step = "ground" -> 1
    [] step = "landmark" -> 2
    [] step = "roads" -> 3
    [] step = "residential" -> 4
    [] step = "environment" -> 5

\* C28: createCity begins its steps in the order ground, landmarks, roads,
\* residential fill, environmental props, and when residential fill begins
\* every landmark has been created and added to the always-active set.
C28_StepsInOrder ==
  /\ \A i, j \in DOMAIN cityLog :
       i < j => StepRank(cityLog[i]) <= StepRank(cityLog[j])
  /\ cityPc \in {"residential", "roads", "done"} =>
       /\ cityLandmarks = Landmarks
       /\ cityAlways = {Landmarks[i] : i \in 1..Len(Landmarks)}

\* The part about the landmarks alone
C28_LandmarksBeforeResidential ==
  cityPc \in {"residential", "roads", "done"} =>
    /\ cityLandmarks = Landmarks
    /\ cityAlways = {Landmarks[i] : i \in 1..Len(Landmarks)}

\* ---- C29 ----

\* C29: a frame's update call, when it returns, has set the breathing
\* vertical scale on every landmark (every member of the always-active
\* set) and on no other building.
C29_EveryLandmarkBreathes ==
  [][\A b \in SceneBuildingIds :
       (frames' = frames + 1 /\ updated'[b] > 0 /\ b \notin throwing')
         => (b \in scaled' <=> b \in visibleBuildings)]_vars

\* The part about the other buildings alone: no frame sets the scale of a
\* building outside the always-active set
C29_OthersKeepScale ==
  [][frames' = frames + 1 => scaled' \subseteq visibleBuildings]_vars

====
